---- MODULE Spec2Model ----
(***************************************************************************)
(* Model of the Expense-Tracker frontend: token storage and protected     *)
(* routing (utils/auth.ts, App.tsx, Sidebar.tsx, Signin/Signup pages) and  *)
(* the Expenses page (pages/Expenses.tsx) with its asynchronous loaders    *)
(* and handlers talking to the REST backend.                               *)
(***************************************************************************)
EXTENDS Integers, Sequences, FiniteSets, TLC

\* ------------------------------------------------------------------ bounds
\* Largest budget amount the model lets a handler send.
MaxBudget == 2
\* Largest number of expenses the backend stores.
MaxExpenses == 1
\* Longest password the model's user types.
MaxPasswordLen == 12
\* Largest number of expenses in the list the filters are applied to.
MaxListed == 2
\* Largest number of loadPredictions invocations in flight at once.
MaxPending == 2

\* --------------------------------------------------------------- constants
Categories == {"Food", "Bills"}

TOKEN_KEY == "expense_token"
USER_KEY == "expense_user"
StorageKeys == {TOKEN_KEY, USER_KEY}

ProtectedPaths == {"/dashboard", "/expenses", "/analytics"}
PublicPaths == {"/", "/signup", "/signin"}
Paths == ProtectedPaths \cup PublicPaths

\* An optional value is a sequence of length 0 (null / undefined) or 1.
None == <<>>
Some(v) == <<v>>
IsSome(o) == Len(o) = 1
Get(o) == o[1]

Max(a, b) == IF a >= b THEN a ELSE b

\* -------------------------------------------------- allocation enrichment
\* Mutant of SpentOf: the spend map is not consulted.
SpentOfNothing(by_category, category) == 0

\* by_category[category] || 0 : a missing key and the value 0 both give 0.
SpentOf(by_category, category) ==
  IF category \in DOMAIN by_category /\ by_category[category] # 0
    THEN by_category[category]
    ELSE 0

\* Mutant of the enrichment of loadBudgetData: remaining is not clamped at 0.
LoadEnrichUnclamped(alloc, by_category) ==
  [category   |-> alloc.category,
   amount     |-> alloc.amount,
   percentage |-> alloc.percentage,
   spent      |-> SpentOf(by_category, alloc.category),
   remaining  |-> alloc.amount - SpentOf(by_category, alloc.category),
   priority   |-> IF alloc.percentage > 20 THEN "high"
                  ELSE IF alloc.percentage > 10 THEN "medium" ELSE "low"]

\* Mutant of the enrichment of loadBudgetData: the boundaries 10 and 20 fall
\* in the upper tier.
LoadEnrichInclusive(alloc, by_category) ==
  [category   |-> alloc.category,
   amount     |-> alloc.amount,
   percentage |-> alloc.percentage,
   spent      |-> SpentOf(by_category, alloc.category),
   remaining  |-> Max(0, alloc.amount - SpentOf(by_category, alloc.category)),
   priority   |-> IF alloc.percentage >= 20 THEN "high"
                  ELSE IF alloc.percentage >= 10 THEN "medium" ELSE "low"]

\* The map callback of loadBudgetData.
LoadEnrich(alloc, by_category) ==
  [category   |-> alloc.category,
   amount     |-> alloc.amount,
   percentage |-> alloc.percentage,
   spent      |-> SpentOf(by_category, alloc.category),
   remaining  |-> Max(0, alloc.amount - SpentOf(by_category, alloc.category)),
   priority   |-> IF alloc.percentage > 20 THEN "high"
                  ELSE IF alloc.percentage > 10 THEN "medium" ELSE "low"]

\* Mutant of the enrichment of handleSetBudget: spent is not looked up.
SetEnrichNoSpent(alloc, by_category) ==
  [category   |-> alloc.category,
   amount     |-> alloc.amount,
   percentage |-> alloc.percentage,
   spent      |-> 0,
   remaining  |-> Max(0, alloc.amount),
   priority   |-> IF alloc.percentage > 20 THEN "high"
                  ELSE IF alloc.percentage > 10 THEN "medium" ELSE "low"]

\* The map callback of handleSetBudget.
SetEnrich(alloc, by_category) ==
  [category   |-> alloc.category,
   amount     |-> alloc.amount,
   percentage |-> alloc.percentage,
   spent      |-> SpentOf(by_category, alloc.category),
   remaining  |-> Max(0, alloc.amount - SpentOf(by_category, alloc.category)),
   priority   |-> IF alloc.percentage > 20 THEN "high"
                  ELSE IF alloc.percentage > 10 THEN "medium" ELSE "low"]

LoadEnrichAll(allocations, by_category) ==
  [i \in 1..Len(allocations) |-> LoadEnrich(allocations[i], by_category)]

SetEnrichAll(allocations, by_category) ==
  [i \in 1..Len(allocations) |-> SetEnrich(allocations[i], by_category)]

\* ------------------------------------------------------ allocation card
\* ((allocation.spent || 0) / allocation.amount) * 100 as an exact value:
\* a finite quotient num/den, or the IEEE results of dividing by zero.
SpentPercentage(allocation) ==
  IF allocation.amount = 0
    THEN [kind |-> IF allocation.spent = 0 THEN "NaN"
                   ELSE IF allocation.spent > 0 THEN "Infinity" ELSE "-Infinity",
          num |-> 0, den |-> 1]
    ELSE [kind |-> "finite", num |-> 100 * allocation.spent, den |-> allocation.amount]

\* p >= k for a spentPercentage p and an integer k (every comparison with NaN is false).
PctGe(p, k) ==
  CASE p.kind = "NaN" -> FALSE
    [] p.kind = "Infinity" -> TRUE
    [] p.kind = "-Infinity" -> FALSE
    [] OTHER -> IF p.den > 0 THEN p.num >= k * p.den ELSE p.num <= k * p.den

\* p < k.
PctLt(p, k) ==
  CASE p.kind = "NaN" -> FALSE
    [] p.kind = "Infinity" -> FALSE
    [] p.kind = "-Infinity" -> TRUE
    [] OTHER -> IF p.den > 0 THEN p.num < k * p.den ELSE p.num > k * p.den

isWarning(allocation) ==
  PctGe(SpentPercentage(allocation), 80) /\ PctLt(SpentPercentage(allocation), 100)

\* Mutant of isDanger: exactly 100% spent is not yet over budget.
isDangerStrict(allocation) ==
  PctGe(SpentPercentage(allocation), 100)
    /\ ~(SpentPercentage(allocation).kind = "finite"
         /\ SpentPercentage(allocation).num = 100 * SpentPercentage(allocation).den)

isDanger(allocation) ==
  PctGe(SpentPercentage(allocation), 100)

\* The card's border / badge / progress-bar state.
AlertState(allocation) ==
  IF isDanger(allocation) THEN "danger"
  ELSE IF isWarning(allocation) THEN "warning"
  ELSE "normal"

\* ------------------------------------------------------------------ state
VARIABLES
  \* browser
  sessionStore,      \* sessionStorage: key -> optional value
  localStore,        \* localStorage: key -> optional value
  page,              \* the route whose element is rendered
  \* Signin and Signup component state, and the pending redirect timer
  signin, signup, redirectTimer,
  \* Expenses component state (useState)
  budgetData, stats, recentExpenses, loading,
  showBudgetModal, budgetAmount, budgetMode, isUpdatingBudget,
  showExpenseModal, expenseForm,
  alertMsg,          \* the window.alert() dialog on screen ("" when none)
  \* asynchronous calls in progress: caller -> [pc, resp, body, stats, result]
  calls,
  \* backend
  srvBudget, srvExpenses,
  \* Expenses component state: the filters of the expense list
  searchTerm, filterCategory, filterDateRange,
  download,          \* the file handed to the browser by a.click() (None when none)
  \* Analytics component state (useState)
  forecastDays, forecast, categoryForecast, anomalies, insights, analyticsLoading,
  \* Analytics: the invocations in flight of loadAnalyticsData (their number)
  \* and of loadPredictions (the days each asked for, in the order started)
  analyticsRuns, predictionRuns,
  \* bookkeeping of the requests each user action has caused
  sent, loadOwner

pageVars == <<budgetData, stats, recentExpenses, loading, showBudgetModal,
              budgetAmount, budgetMode, isUpdatingBudget, showExpenseModal,
              expenseForm>>
appVars == <<sessionStore, localStore, page, signin, signup, redirectTimer>>
srvVars == <<srvBudget, srvExpenses>>
bookVars == <<sent, loadOwner>>
filterVars == <<searchTerm, filterCategory, filterDateRange, download>>
analyticsVars == <<forecastDays, forecast, categoryForecast, anomalies, insights,
                   analyticsLoading, analyticsRuns, predictionRuns>>
vars == <<appVars, pageVars, alertMsg, calls, srvVars, bookVars, filterVars,
          analyticsVars>>

\* The Analytics component's state as useState creates it, nothing in flight.
AnalyticsInitialState ==
  /\ forecastDays = 30
  /\ forecast = <<>> /\ categoryForecast = <<>>
  /\ anomalies = <<>> /\ insights = <<>>
  /\ analyticsLoading = TRUE
  /\ analyticsRuns = 0 /\ predictionRuns = <<>>

currentPeriod == "2026-11"

Callers == {"loadStats", "loadRecentExpenses", "loadBudgetData",
            "handleSetBudget", "handleAddExpense", "login", "signup"}
Loaders == {"loadStats", "loadRecentExpenses", "loadBudgetData"}

Kinds == {"getExpenseStats", "getExpenses", "getBudget", "distributeBudget",
          "setBudget", "addExpense", "login", "signup"}
UserActions == {"handleSetBudget", "handleAddExpense", "login", "signup"}

IdleCall == [pc |-> "idle", resp |-> None, body |-> None, stats |-> None, result |-> None]

\* A request of kind k with body b leaves the caller waiting for its response.
Request(call, k, b) == [call EXCEPT !.pc = k, !.resp = None, !.body = b]

NoneSent == [k \in Kinds |-> 0]

\* The requests of a user action are counted while the action is in progress:
\* once every call it started has settled the account is closed.
Settled(s, a, callsAfter) ==
  IF a \in UserActions /\ \A c \in Callers : callsAfter[c].pc = "idle" \/ c \notin
       (IF a = "handleAddExpense"
          THEN {"handleAddExpense", "loadStats", "loadRecentExpenses", "loadBudgetData"}
          ELSE {a})
    THEN [s EXCEPT ![a] = NoneSent]
    ELSE s

\* One more request of kind k on the account of user action a ("mount" is no
\* user action of the page and is not counted).
Count(s, a, k) == IF a \in UserActions THEN [s EXCEPT ![a][k] = @ + 1] ELSE s

\* Text of a number input: "" is <<>>, the text of n is <<n>>.
parseFloat(text) == IF Len(text) = 0 THEN "NaN" ELSE text[1]
\* Mutant of NotPositive: an amount of 0 passes the validation.
NotPositiveAllowsZero(text) == Len(text) = 0 \/ text[1] < 0

\* !text || parseFloat(text) <= 0
NotPositive(text) == Len(text) = 0 \/ text[1] <= 0

EmptyForm == [category |-> "", amount |-> <<>>]

\* ---------------------------------------------------------------- backend
\* Sum of the amounts of the expenses of one category.
RECURSIVE SumOf(_, _)
SumOf(expenses, category) ==
  IF Len(expenses) = 0 THEN 0
  ELSE (IF expenses[1].category = category THEN expenses[1].amount ELSE 0)
       + SumOf(Tail(expenses), category)

\* ExpenseStats as the backend reports them: by_category has a key for each
\* category that has expenses.
SrvStats(expenses) ==
  [by_category |->
     [c \in {expenses[i].category : i \in 1..Len(expenses)} |-> SumOf(expenses, c)]]

\* The allocation lists the budget service may answer with.
Alloc(c, a, p) == [category |-> c, amount |-> a, percentage |-> p, reason |-> "forecast"]
SrvAllocations ==
  { <<Alloc("Food", 0, 10), Alloc("Bills", 2, 90)>>,
    <<Alloc("Food", 1, 20), Alloc("Bills", 1, 21)>> }

Ok(data) == Some([ok |-> TRUE, data |-> data])
Err == Some([ok |-> FALSE, data |-> None])

Pending(c, k) == calls[c].pc = k /\ calls[c].resp = None

\* GET /api/expenses/stats/{user}
SrvGetExpenseStats ==
  \E c \in Callers :
    /\ Pending(c, "getExpenseStats")
    /\ calls' = [calls EXCEPT ![c].resp = Ok(SrvStats(srvExpenses))]
    /\ UNCHANGED <<appVars, pageVars, alertMsg, srvVars, bookVars>>
    /\ UNCHANGED <<filterVars, analyticsVars>>

\* GET /api/expenses/list/{user}
SrvGetExpenses ==
  \E c \in Callers :
    /\ Pending(c, "getExpenses")
    /\ calls' = [calls EXCEPT ![c].resp = Ok(srvExpenses)]
    /\ UNCHANGED <<appVars, pageVars, alertMsg, srvVars, bookVars>>
    /\ UNCHANGED <<filterVars, analyticsVars>>

\* GET /api/budget/get/{user}/{period}
SrvGetBudget ==
  \E c \in Callers :
    /\ Pending(c, "getBudget")
    /\ calls' = [calls EXCEPT ![c].resp =
                   Ok([success |-> IsSome(srvBudget), budget |-> srvBudget])]
    /\ UNCHANGED <<appVars, pageVars, alertMsg, srvVars, bookVars>>
    /\ UNCHANGED <<filterVars, analyticsVars>>

\* POST /api/budget/distribute
SrvDistributeBudget ==
  \E c \in Callers, allocations \in SrvAllocations :
    /\ Pending(c, "distributeBudget")
    /\ calls' = [calls EXCEPT ![c].resp =
                   Ok([budget_amount |-> Get(calls[c].body),
                       period |-> currentPeriod,
                       allocations |-> allocations])]
    /\ UNCHANGED <<appVars, pageVars, alertMsg, srvVars, bookVars>>
    /\ UNCHANGED <<filterVars, analyticsVars>>

\* POST /api/budget/set : the budget is stored; the response may still be lost.
SrvSetBudget ==
  \E c \in Callers, delivered \in BOOLEAN :
    /\ Pending(c, "setBudget")
    /\ srvBudget' = Some([amount |-> Get(calls[c].body)])
    /\ calls' = [calls EXCEPT ![c].resp = IF delivered THEN Ok(None) ELSE Err]
    /\ UNCHANGED <<appVars, pageVars, alertMsg, srvExpenses, bookVars>>
    /\ UNCHANGED <<filterVars, analyticsVars>>

\* POST /api/expenses/add : the expense is stored; the response may still be lost.
SrvAddExpense ==
  \E c \in Callers, delivered \in BOOLEAN :
    /\ Pending(c, "addExpense")
    /\ Len(srvExpenses) < MaxExpenses
    /\ srvExpenses' = Append(srvExpenses, Get(calls[c].body))
    /\ calls' = [calls EXCEPT ![c].resp = IF delivered THEN Ok(None) ELSE Err]
    /\ UNCHANGED <<appVars, pageVars, alertMsg, srvBudget, bookVars>>
    /\ UNCHANGED <<filterVars, analyticsVars>>

\* Any request may fail (server error, budget exceeded, network failure)
\* without an effect on the backend.
RequestFails ==
  \E c \in Callers :
    /\ calls[c].pc # "idle"
    /\ calls[c].resp = None
    /\ calls' = [calls EXCEPT ![c].resp = Err]
    /\ UNCHANGED <<appVars, pageVars, alertMsg, srvVars, bookVars>>
    /\ UNCHANGED <<filterVars, analyticsVars>>

\* ---------------------------------------------------------- Expenses page
\* The page's handlers run while the page is mounted and no alert() dialog
\* blocks the event loop.
Running == page = "/expenses" /\ alertMsg = ""

\* The model's user acts on the page between operations: a click or a key
\* stroke is taken once the calls named in `busy` have settled.
Settles(busy) == \A c \in busy : calls[c].pc = "idle"
Quiet == Running /\ Settles(Callers)
QuietButBudget == Running /\ Settles(Callers \ {"handleSetBudget"})

Responded(c, k) == calls[c].pc = k /\ IsSome(calls[c].resp)
Response(c) == Get(calls[c].resp)

\* Newest first, at most 50 (the backend lists expenses in creation order).
RECURSIVE Reverse(_)
Reverse(s) == IF Len(s) = 0 THEN <<>> ELSE Append(Reverse(Tail(s)), s[1])
SortedRecent(expenses) ==
  SubSeq(Reverse(expenses), 1, IF Len(expenses) < 50 THEN Len(expenses) ELSE 50)

\* loadData: the three loaders start together, on the account of `owner`.
LoadDataCalls(owner) ==
  /\ calls' = [calls EXCEPT
       !["loadStats"] = Request(IdleCall, "getExpenseStats", None),
       !["loadRecentExpenses"] = Request(IdleCall, "getExpenses", None),
       !["loadBudgetData"] = Request(IdleCall, "getBudget", None),
       !["handleAddExpense"] = IdleCall]
  /\ loading' = TRUE
  /\ loadOwner' = owner
  /\ sent' = Count(Count(Count(sent, owner, "getExpenseStats"), owner, "getExpenses"),
                   owner, "getBudget")

\* loadStats after its getExpenseStats settled.
LoadStatsDone ==
  /\ Running
  /\ Responded("loadStats", "getExpenseStats")
  /\ stats' = IF Response("loadStats").ok
                THEN Some(Response("loadStats").data)
                ELSE Some([by_category |-> <<>>])
  /\ calls' = [calls EXCEPT !["loadStats"] = IdleCall]
  /\ sent' = Settled(sent, loadOwner, calls')
  /\ UNCHANGED <<appVars, budgetData, recentExpenses, loading, showBudgetModal,
                 budgetAmount, budgetMode, isUpdatingBudget, showExpenseModal,
                 expenseForm, alertMsg, srvVars, loadOwner>>
  /\ UNCHANGED <<filterVars, analyticsVars>>

\* loadRecentExpenses after its getExpenses settled.
LoadRecentExpensesDone ==
  /\ Running
  /\ Responded("loadRecentExpenses", "getExpenses")
  /\ recentExpenses' = IF Response("loadRecentExpenses").ok
                         THEN SortedRecent(Response("loadRecentExpenses").data)
                         ELSE <<>>
  /\ calls' = [calls EXCEPT !["loadRecentExpenses"] = IdleCall]
  /\ sent' = Settled(sent, loadOwner, calls')
  /\ UNCHANGED <<appVars, budgetData, stats, loading, showBudgetModal,
                 budgetAmount, budgetMode, isUpdatingBudget, showExpenseModal,
                 expenseForm, alertMsg, srvVars, loadOwner>>
  /\ UNCHANGED <<filterVars, analyticsVars>>

\* loadBudgetData after getBudget settled: stop without a budget (or on an
\* error), else ask for fresh stats.
LoadBudgetDataGotBudget ==
  /\ Running
  /\ Responded("loadBudgetData", "getBudget")
  /\ LET r == Response("loadBudgetData") IN
       IF r.ok /\ r.data.success /\ IsSome(r.data.budget)
         THEN /\ calls' = [calls EXCEPT !["loadBudgetData"] =
                             Request(@, "getExpenseStats", Some(Get(r.data.budget).amount))]
              /\ sent' = Count(sent, loadOwner, "getExpenseStats")
              /\ UNCHANGED loading
         ELSE /\ calls' = [calls EXCEPT !["loadBudgetData"] = IdleCall]
              /\ loading' = FALSE
              /\ sent' = Settled(sent, loadOwner, calls')
  /\ UNCHANGED <<appVars, budgetData, stats, recentExpenses, showBudgetModal,
                 budgetAmount, budgetMode, isUpdatingBudget, showExpenseModal,
                 expenseForm, alertMsg, srvVars, loadOwner>>
  /\ UNCHANGED <<filterVars, analyticsVars>>

\* loadBudgetData after getExpenseStats settled: setStats(currentStats) and
\* ask for the distribution of the stored budget.
LoadBudgetDataGotStats ==
  /\ Running
  /\ Responded("loadBudgetData", "getExpenseStats")
  /\ LET r == Response("loadBudgetData") IN
       IF r.ok
         THEN /\ stats' = Some(r.data)
              /\ calls' = [calls EXCEPT !["loadBudgetData"] =
                             Request([@ EXCEPT !.stats = Some(r.data)],
                                     "distributeBudget", @.body)]
              /\ sent' = Count(sent, loadOwner, "distributeBudget")
              /\ UNCHANGED loading
         ELSE /\ calls' = [calls EXCEPT !["loadBudgetData"] = IdleCall]
              /\ loading' = FALSE
              /\ sent' = Settled(sent, loadOwner, calls')
              /\ UNCHANGED stats
  /\ UNCHANGED <<appVars, budgetData, recentExpenses, showBudgetModal,
                 budgetAmount, budgetMode, isUpdatingBudget, showExpenseModal,
                 expenseForm, alertMsg, srvVars, loadOwner>>
  /\ UNCHANGED <<filterVars, analyticsVars>>

\* loadBudgetData after distributeBudget settled: the enriched result is displayed.
LoadBudgetDataGotDistribution ==
  /\ Running
  /\ Responded("loadBudgetData", "distributeBudget")
  /\ LET r == Response("loadBudgetData")
         currentStats == Get(calls["loadBudgetData"].stats) IN
       budgetData' = IF r.ok
                       THEN Some([budget_amount |-> r.data.budget_amount,
                                  period |-> r.data.period,
                                  allocations |-> LoadEnrichAll(r.data.allocations,
                                                                currentStats.by_category)])
                       ELSE budgetData
  /\ loading' = FALSE
  /\ calls' = [calls EXCEPT !["loadBudgetData"] = IdleCall]
  /\ sent' = Settled(sent, loadOwner, calls')
  /\ UNCHANGED <<appVars, stats, recentExpenses, showBudgetModal,
                 budgetAmount, budgetMode, isUpdatingBudget, showExpenseModal,
                 expenseForm, alertMsg, srvVars, loadOwner>>
  /\ UNCHANGED <<filterVars, analyticsVars>>

\* Mutant of FinalBudgetAmount: the entered amount is added whenever a budget
\* is displayed, whatever the mode.
FinalBudgetAmountAlwaysAdd(mode, data, text) ==
  IF IsSome(data)
    THEN Get(data).budget_amount + parseFloat(text)
    ELSE parseFloat(text)

\* finalBudgetAmount of handleSetBudget.
FinalBudgetAmount(mode, data, text) ==
  IF mode = "add" /\ IsSome(data)
    THEN Get(data).budget_amount + parseFloat(text)
    ELSE parseFloat(text)

\* The "Update" / "Set Budget" and "Add Money" buttons of the balance card and
\* the "Set Budget" button of the empty allocation list; the modals' overlay
\* covers them while a modal is open.
OpenBudgetModal ==
  /\ Quiet
  /\ ~showBudgetModal /\ ~showExpenseModal
  /\ \E button \in {"set", "add", "empty"} :
       /\ button = "add" => IsSome(budgetData)
       /\ button = "empty" => ~loading /\ ~IsSome(budgetData)
       /\ budgetMode' = IF button = "empty" THEN budgetMode ELSE button
  /\ showBudgetModal' = TRUE
  /\ UNCHANGED <<appVars, budgetData, stats, recentExpenses, loading, budgetAmount,
                 isUpdatingBudget, showExpenseModal, expenseForm, alertMsg, calls,
                 srvVars, bookVars>>
  /\ UNCHANGED <<filterVars, analyticsVars>>

\* The X button of the budget modal.
CloseBudgetModal ==
  /\ QuietButBudget
  /\ showBudgetModal
  /\ showBudgetModal' = FALSE
  /\ budgetMode' = "set"
  /\ UNCHANGED <<appVars, budgetData, stats, recentExpenses, loading, budgetAmount,
                 isUpdatingBudget, showExpenseModal, expenseForm, alertMsg, calls,
                 srvVars, bookVars>>
  /\ UNCHANGED <<filterVars, analyticsVars>>

\* Texts the user types into the amount input (type="number").
BudgetTexts == {<<>>, <<0>>, <<1>>, <<2>>}

\* onChange of the amount input.
ChangeBudgetAmount ==
  /\ QuietButBudget
  /\ showBudgetModal
  /\ \E text \in BudgetTexts : budgetAmount' = text
  /\ UNCHANGED <<appVars, budgetData, stats, recentExpenses, loading,
                 showBudgetModal, budgetMode, isUpdatingBudget, showExpenseModal,
                 expenseForm, alertMsg, calls, srvVars, bookVars>>
  /\ UNCHANGED <<filterVars, analyticsVars>>

\* handleSetBudget up to its first await: validation, then the setBudget request.
HandleSetBudget ==
  /\ Quiet
  /\ showBudgetModal /\ ~isUpdatingBudget
  /\ IF NotPositive(budgetAmount)
       THEN /\ alertMsg' = "Please enter a valid budget amount"
            /\ sent' = [sent EXCEPT !["handleSetBudget"] = NoneSent]
            /\ UNCHANGED <<isUpdatingBudget, calls>>
       ELSE LET finalBudgetAmount ==
                  FinalBudgetAmount(budgetMode, budgetData, budgetAmount) IN
            /\ finalBudgetAmount <= MaxBudget
            /\ isUpdatingBudget' = TRUE
            /\ calls' = [calls EXCEPT !["handleSetBudget"] =
                           Request(IdleCall, "setBudget", Some(finalBudgetAmount))]
            /\ sent' = [sent EXCEPT !["handleSetBudget"] =
                          [NoneSent EXCEPT !["setBudget"] = 1]]
            /\ UNCHANGED alertMsg
  /\ UNCHANGED <<appVars, budgetData, stats, recentExpenses, loading,
                 showBudgetModal, budgetAmount, budgetMode, showExpenseModal,
                 expenseForm, srvVars, loadOwner>>
  /\ UNCHANGED <<filterVars, analyticsVars>>

\* Mutant of HandleSetBudgetCatch: the failure also closes and resets the modal.
HandleSetBudgetCatchResetsModal ==
  /\ alertMsg' = "Failed to set budget. Please try again."
  /\ isUpdatingBudget' = FALSE
  /\ calls' = [calls EXCEPT !["handleSetBudget"] = IdleCall]
  /\ sent' = Settled(sent, "handleSetBudget", calls')
  /\ showBudgetModal' = FALSE
  /\ budgetAmount' = <<>>
  /\ budgetMode' = "set"
  /\ UNCHANGED <<budgetData, stats>>

\* Mutant of HandleSetBudgetCatch: a failed request is sent once more before
\* the handler gives up.
HandleSetBudgetCatchRetries ==
  IF sent["handleSetBudget"][calls["handleSetBudget"].pc] < 2
    THEN /\ calls' = [calls EXCEPT !["handleSetBudget"] = Request(@, @.pc, @.body)]
         /\ sent' = Count(sent, "handleSetBudget", calls["handleSetBudget"].pc)
         /\ UNCHANGED <<alertMsg, isUpdatingBudget, budgetData, stats,
                        showBudgetModal, budgetAmount, budgetMode>>
    ELSE /\ alertMsg' = "Failed to set budget. Please try again."
         /\ isUpdatingBudget' = FALSE
         /\ calls' = [calls EXCEPT !["handleSetBudget"] = IdleCall]
         /\ sent' = Settled(sent, "handleSetBudget", calls')
         /\ UNCHANGED <<budgetData, stats, showBudgetModal, budgetAmount, budgetMode>>

\* The catch and finally blocks of handleSetBudget.
HandleSetBudgetCatch ==
  /\ alertMsg' = "Failed to set budget. Please try again."
  /\ isUpdatingBudget' = FALSE
  /\ calls' = [calls EXCEPT !["handleSetBudget"] = IdleCall]
  /\ sent' = Settled(sent, "handleSetBudget", calls')
  /\ UNCHANGED <<budgetData, stats, showBudgetModal, budgetAmount, budgetMode>>

\* handleSetBudget after setBudget settled: redistribute the final amount.
HandleSetBudgetStored ==
  /\ Running
  /\ Responded("handleSetBudget", "setBudget")
  /\ IF Response("handleSetBudget").ok
       THEN /\ calls' = [calls EXCEPT !["handleSetBudget"] =
                           Request(@, "distributeBudget", @.body)]
            /\ sent' = Count(sent, "handleSetBudget", "distributeBudget")
            /\ UNCHANGED <<budgetData, stats, showBudgetModal, budgetAmount,
                           budgetMode, isUpdatingBudget, alertMsg>>
       ELSE HandleSetBudgetCatch
  /\ UNCHANGED <<appVars, recentExpenses, loading, showExpenseModal, expenseForm,
                 srvVars, loadOwner>>
  /\ UNCHANGED <<filterVars, analyticsVars>>

\* handleSetBudget after distributeBudget settled: get the current stats.
HandleSetBudgetDistributed ==
  /\ Running
  /\ Responded("handleSetBudget", "distributeBudget")
  /\ IF Response("handleSetBudget").ok
       THEN /\ calls' = [calls EXCEPT !["handleSetBudget"] =
                           Request([@ EXCEPT !.result = Some(Response("handleSetBudget").data)],
                                   "getExpenseStats", @.body)]
            /\ sent' = Count(sent, "handleSetBudget", "getExpenseStats")
            /\ UNCHANGED <<budgetData, stats, showBudgetModal, budgetAmount,
                           budgetMode, isUpdatingBudget, alertMsg>>
       ELSE HandleSetBudgetCatch
  /\ UNCHANGED <<appVars, recentExpenses, loading, showExpenseModal, expenseForm,
                 srvVars, loadOwner>>
  /\ UNCHANGED <<filterVars, analyticsVars>>

\* handleSetBudget after getExpenseStats settled: the new budget is displayed
\* and the modal is reset.
HandleSetBudgetGotStats ==
  /\ Running
  /\ Responded("handleSetBudget", "getExpenseStats")
  /\ IF Response("handleSetBudget").ok
       THEN LET currentStats == Response("handleSetBudget").data
                result == Get(calls["handleSetBudget"].result)
                finalBudgetAmount == Get(calls["handleSetBudget"].body) IN
            /\ budgetData' = Some([budget_amount |-> finalBudgetAmount,
                                   period |-> result.period,
                                   allocations |-> SetEnrichAll(result.allocations,
                                                                currentStats.by_category)])
            /\ stats' = Some(currentStats)
            /\ showBudgetModal' = FALSE
            /\ budgetAmount' = <<>>
            /\ budgetMode' = "set"
            /\ isUpdatingBudget' = FALSE
            /\ calls' = [calls EXCEPT !["handleSetBudget"] = IdleCall]
            /\ sent' = Settled(sent, "handleSetBudget", calls')
            /\ UNCHANGED alertMsg
       ELSE HandleSetBudgetCatch
  /\ UNCHANGED <<appVars, recentExpenses, loading, showExpenseModal, expenseForm,
                 srvVars, loadOwner>>
  /\ UNCHANGED <<filterVars, analyticsVars>>

\* The "Add Expense" button of the page header.
OpenExpenseModal ==
  /\ Quiet
  /\ ~showBudgetModal /\ ~showExpenseModal
  /\ showExpenseModal' = TRUE
  /\ UNCHANGED <<appVars, budgetData, stats, recentExpenses, loading,
                 showBudgetModal, budgetAmount, budgetMode, isUpdatingBudget,
                 expenseForm, alertMsg, calls, srvVars, bookVars>>
  /\ UNCHANGED <<filterVars, analyticsVars>>

\* The X button of the expense modal.
CloseExpenseModal ==
  /\ Quiet
  /\ showExpenseModal
  /\ showExpenseModal' = FALSE
  /\ UNCHANGED <<appVars, budgetData, stats, recentExpenses, loading,
                 showBudgetModal, budgetAmount, budgetMode, isUpdatingBudget,
                 expenseForm, alertMsg, calls, srvVars, bookVars>>
  /\ UNCHANGED <<filterVars, analyticsVars>>

\* What the user fills into the expense form (category select, amount input).
ExpenseForms ==
  { [category |-> "", amount |-> <<1>>],
    [category |-> "Food", amount |-> <<>>],
    [category |-> "Food", amount |-> <<0>>],
    [category |-> "Food", amount |-> <<1>>] }

\* onChange of the expense form's fields.
ChangeExpenseForm ==
  /\ Quiet
  /\ showExpenseModal
  /\ \E form \in ExpenseForms : expenseForm' = form
  /\ UNCHANGED <<appVars, budgetData, stats, recentExpenses, loading,
                 showBudgetModal, budgetAmount, budgetMode, isUpdatingBudget,
                 showExpenseModal, alertMsg, calls, srvVars, bookVars>>
  /\ UNCHANGED <<filterVars, analyticsVars>>

\* handleAddExpense up to its first await: validation, then the addExpense request.
HandleAddExpense ==
  /\ Quiet
  /\ showExpenseModal
  /\ IF expenseForm.category = "" \/ NotPositive(expenseForm.amount)
       THEN /\ alertMsg' = "Please fill in all required fields"
            /\ sent' = [sent EXCEPT !["handleAddExpense"] = NoneSent]
            /\ UNCHANGED calls
       ELSE /\ calls' = [calls EXCEPT !["handleAddExpense"] =
                           Request(IdleCall, "addExpense",
                                   Some([category |-> expenseForm.category,
                                         amount |-> parseFloat(expenseForm.amount)]))]
            /\ sent' = [sent EXCEPT !["handleAddExpense"] =
                          [NoneSent EXCEPT !["addExpense"] = 1]]
            /\ UNCHANGED alertMsg
  /\ UNCHANGED <<appVars, pageVars, srvVars, loadOwner>>
  /\ UNCHANGED <<filterVars, analyticsVars>>

\* handleAddExpense after addExpense settled: on success the modal closes, the
\* form is reset and loadData runs; on failure only an alert is shown.
HandleAddExpenseDone ==
  /\ Running
  /\ Responded("handleAddExpense", "addExpense")
  /\ IF Response("handleAddExpense").ok
       THEN /\ \A c \in Loaders : calls[c].pc = "idle"
            /\ showExpenseModal' = FALSE
            /\ expenseForm' = EmptyForm
            /\ LoadDataCalls("handleAddExpense")
            /\ UNCHANGED alertMsg
       ELSE /\ alertMsg' = "Failed to add expense. Please try again."
            /\ calls' = [calls EXCEPT !["handleAddExpense"] = IdleCall]
            /\ sent' = Settled(sent, "handleAddExpense", calls')
            /\ UNCHANGED <<showExpenseModal, expenseForm, loading, loadOwner>>
  /\ UNCHANGED <<appVars, budgetData, stats, recentExpenses, showBudgetModal,
                 budgetAmount, budgetMode, isUpdatingBudget, srvVars>>
  /\ UNCHANGED <<filterVars, analyticsVars>>

\* The user dismisses the alert() dialog.
DismissAlert ==
  /\ alertMsg # ""
  /\ alertMsg' = ""
  /\ UNCHANGED <<appVars, pageVars, calls, srvVars, bookVars>>
  /\ UNCHANGED <<filterVars, analyticsVars>>

\* State of a freshly mounted Expenses component.
MountedExpenses ==
  /\ budgetData' = None
  /\ stats' = None
  /\ recentExpenses' = <<>>
  /\ showBudgetModal' = FALSE
  /\ budgetAmount' = <<>>
  /\ budgetMode' = "set"
  /\ isUpdatingBudget' = FALSE
  /\ showExpenseModal' = FALSE
  /\ expenseForm' = EmptyForm
  /\ searchTerm' = <<>>
  /\ filterCategory' = "All"
  /\ filterDateRange' = "Month"

\* ------------------------------------------------------------- validation
\* A text is a sequence of characters.
Whitespace == {" "}
Lower == {"a","b","c","d","e","f","g","h","i","j","k","l","m",
          "n","o","p","q","r","s","t","u","v","w","x","y","z"}
Upper == {"A","B","C","D","E","F","G","H","I","J","K","L","M",
          "N","O","P","Q","R","S","T","U","V","W","X","Y","Z"}
Digits == {"0","1","2","3","4","5","6","7","8","9"}

RECURSIVE TrimLeft(_)
TrimLeft(t) == IF Len(t) > 0 /\ t[1] \in Whitespace THEN TrimLeft(Tail(t)) ELSE t
RECURSIVE TrimRight(_)
TrimRight(t) ==
  IF Len(t) > 0 /\ t[Len(t)] \in Whitespace THEN TrimRight(SubSeq(t, 1, Len(t) - 1)) ELSE t
Trim(t) == TrimRight(TrimLeft(t))

\* !text || text.trim() === ''
IsBlank(t) == Len(Trim(t)) = 0

Valid == [isValid |-> TRUE, error |-> None]
Invalid(message) == [isValid |-> FALSE, error |-> Some(message)]

\* /^[^\s@]+@[^\s@]+\.[^\s@]+$/
EmailRegexTest(t) ==
  \E at \in 1..Len(t) :
    /\ t[at] = "@"
    /\ \A i \in 1..Len(t) : t[i] \notin Whitespace /\ (t[i] = "@" => i = at)
    /\ at > 1
    /\ \E dot \in (at + 2)..(Len(t) - 1) : t[dot] = "."

validateEmail(email) ==
  IF IsBlank(email) THEN Invalid("Email is required")
  ELSE IF ~EmailRegexTest(email) THEN Invalid("Please enter a valid email address")
  ELSE Valid

\* Mutant of validatePassword: the letter rule is checked before the length.
validatePasswordLetterFirst(password) ==
  IF IsBlank(password) THEN Invalid("Password is required")
  ELSE IF ~\E i \in 1..Len(password) : password[i] \in Lower \cup Upper
    THEN Invalid("Password must contain at least one letter")
  ELSE IF Len(password) < 8 THEN Invalid("Password must be at least 8 characters")
  ELSE IF ~\E i \in 1..Len(password) : password[i] \in Digits
    THEN Invalid("Password must contain at least one number")
  ELSE Valid

validatePassword(password) ==
  IF IsBlank(password) THEN Invalid("Password is required")
  ELSE IF Len(password) < 8 THEN Invalid("Password must be at least 8 characters")
  ELSE IF ~\E i \in 1..Len(password) : password[i] \in Lower \cup Upper
    THEN Invalid("Password must contain at least one letter")
  ELSE IF ~\E i \in 1..Len(password) : password[i] \in Digits
    THEN Invalid("Password must contain at least one number")
  ELSE Valid

\* /[!@#$%^&*()_+\-=\[\]{};':"\\|,.<>\/?]/
Special == {"!","@","#","$","%","^","&","*","(",")","_","+","-","=","[","]",
            "{","}",";","'",":","\"","\\","|",",",".","<",">","/","?"}

Has(password, class) == \E i \in 1..Len(password) : password[i] \in class

\* [hasLower, hasUpper, hasNumber, hasSpecial].filter(Boolean).length
varietyCount(password) ==
  Cardinality({class \in {Lower, Upper, Digits, Special} : Has(password, class)})

StrengthLabel(score) ==
  IF score <= 1 THEN "weak" ELSE IF score <= 2 THEN "medium" ELSE "strong"

\* Mutant of calculatePasswordStrength: a score of 2 still counts as weak.
calculatePasswordStrengthHarsh(password) ==
  IF Len(password) = 0 THEN [score |-> 0, label |-> "weak"]
  ELSE LET score == (IF Len(password) >= 8 THEN 1 ELSE 0)
                    + (IF Len(password) >= 12 THEN 1 ELSE 0)
                    + (IF varietyCount(password) >= 3 THEN 1 ELSE 0)
                    + (IF varietyCount(password) >= 4 THEN 1 ELSE 0) IN
       [score |-> score,
        label |-> IF score <= 2 THEN "weak" ELSE IF score <= 3 THEN "medium" ELSE "strong"]

calculatePasswordStrength(password) ==
  IF Len(password) = 0 THEN [score |-> 0, label |-> "weak"]
  ELSE LET score == (IF Len(password) >= 8 THEN 1 ELSE 0)
                    + (IF Len(password) >= 12 THEN 1 ELSE 0)
                    + (IF varietyCount(password) >= 3 THEN 1 ELSE 0)
                    + (IF varietyCount(password) >= 4 THEN 1 ELSE 0) IN
       [score |-> score, label |-> StrengthLabel(score)]

validateConfirmPassword(password, confirmPassword) ==
  IF IsBlank(confirmPassword) THEN Invalid("Please confirm your password")
  ELSE IF password # confirmPassword THEN Invalid("Passwords do not match")
  ELSE Valid

validateName(name) ==
  IF IsBlank(name) THEN Invalid("Full name is required")
  ELSE IF Len(Trim(name)) < 2 THEN Invalid("Name must be at least 2 characters")
  ELSE Valid

\* phone.replace(/[\s\-\(\)]/g, '')
RECURSIVE Cleaned(_)
Cleaned(t) ==
  IF Len(t) = 0 THEN <<>>
  ELSE IF t[1] \in Whitespace \cup {"-", "(", ")"} THEN Cleaned(Tail(t))
  ELSE <<t[1]>> \o Cleaned(Tail(t))

\* /^\+?\d{10,15}$/
PhoneRegexTest(t) ==
  LET digits == IF Len(t) > 0 /\ t[1] = "+" THEN Tail(t) ELSE t IN
  /\ Len(digits) >= 10 /\ Len(digits) <= 15
  /\ \A i \in 1..Len(digits) : digits[i] \in Digits

validatePhone(phone) ==
  IF IsBlank(phone) THEN Valid
  ELSE IF ~PhoneRegexTest(Cleaned(phone))
    THEN Invalid("Please enter a valid phone number (10-15 digits)")
  ELSE Valid

\* ------------------------------------------------------ utils/auth.ts
getAuthToken(session) == session[TOKEN_KEY]

\* Mutant of isAuthenticated: every visitor counts as signed in.
isAuthenticatedAlways(session) == TRUE

isAuthenticated(session) == getAuthToken(session) # None

setAuthToken(session, token) == [session EXCEPT ![TOKEN_KEY] = Some(token)]
setUserData(session, user) == [session EXCEPT ![USER_KEY] = Some(user)]

\* Mutant of removeAuthToken: the user data stays behind.
removeAuthTokenOnly(session) == [session EXCEPT ![TOKEN_KEY] = None]

removeAuthToken(session) == [session EXCEPT ![TOKEN_KEY] = None, ![USER_KEY] = None]

logout(session) == removeAuthToken(session)

\* What login and signup do with a successful response: the token is stored
\* if the response has one, the user data if it has them.
StoreAuthResponse(session, data) ==
  LET withToken == IF IsSome(data.token) THEN setAuthToken(session, Get(data.token))
                   ELSE session IN
  IF IsSome(data.user) THEN setUserData(withToken, Get(data.user)) ELSE withToken

\* ------------------------------------------------------------- App.tsx
ProtectedRoute(session, path) ==
  IF isAuthenticated(session) THEN path ELSE "/signin"

\* The element <Routes> renders for a location.
Routes(session, path) ==
  IF path \in ProtectedPaths THEN ProtectedRoute(session, path)
  ELSE IF path \in PublicPaths THEN path
  ELSE "/"

FreshSignin ==
  [formData |-> [email |-> <<>>, password |-> <<>>, remember |-> FALSE],
   touched |-> [email |-> FALSE, password |-> FALSE],
   errors |-> [email |-> None, password |-> None],
   apiError |-> None, isSubmitting |-> FALSE, showSuccess |-> FALSE]

SignupFields == {"name", "email", "password", "confirmPassword", "phone"}
FreshSignup ==
  [formData |-> [f \in SignupFields |-> <<>>],
   touched |-> [f \in SignupFields |-> FALSE],
   errors |-> [f \in SignupFields |-> None],
   apiError |-> None, isSubmitting |-> FALSE, showSuccess |-> FALSE]

\* The page at `path` is rendered: its component mounts with fresh state (the
\* Expenses page starts loadData from its mount effect), the others unmount.
Render(path) ==
  /\ page' = path
  /\ signin' = FreshSignin
  /\ signup' = FreshSignup
  /\ MountedExpenses
  /\ IF path = "/expenses"
       THEN LoadDataCalls("mount")
       ELSE loading' = FALSE /\ UNCHANGED <<calls, loadOwner, sent>>

\* The user is between operations: nothing is in flight, no dialog, no timer.
AtRest == alertMsg = "" /\ Settles(Callers) /\ ~redirectTimer

\* The user opens a location (a link, the address bar, a reload).
Navigate ==
  /\ AtRest
  /\ \E path \in Paths \cup {"/missing"} : Render(Routes(sessionStore, path))
  /\ UNCHANGED <<sessionStore, localStore, redirectTimer, alertMsg, srvVars>>
  /\ UNCHANGED <<download, analyticsVars>>

\* Sidebar.handleLogout: logout(), then navigate('/signin').
HandleLogout ==
  /\ AtRest
  /\ page \in ProtectedPaths
  /\ sessionStore' = logout(sessionStore)
  /\ Render(Routes(sessionStore', "/signin"))
  /\ UNCHANGED <<localStore, redirectTimer, alertMsg, srvVars>>
  /\ UNCHANGED <<download, analyticsVars>>

\* The setTimeout callback of a successful sign-in or sign-up: navigate('/dashboard').
RedirectTimerFires ==
  /\ redirectTimer
  /\ alertMsg = ""
  /\ redirectTimer' = FALSE
  /\ Render(Routes(sessionStore, "/dashboard"))
  /\ UNCHANGED <<sessionStore, localStore, alertMsg, srvVars>>
  /\ UNCHANGED <<download, analyticsVars>>

\* --------------------------------------------------------- Signin page
\* What the user types into the sign-in form.
SigninForms ==
  { [email |-> <<"a","@","b",".","c">>, password |-> <<"p","w">>, remember |-> FALSE],
    [email |-> <<"a","b">>,             password |-> <<"p","w">>, remember |-> FALSE],
    [email |-> <<"a","@","b",".","c">>, password |-> <<" ">>,     remember |-> FALSE] }

\* Signin.validateField for each field of the form.
SigninValidate(form) ==
  [email |-> validateEmail(form.email),
   password |-> IF Len(Trim(form.password)) # 0 THEN Valid
                ELSE Invalid("Password is required")]

\* Signin.isFormValid: the submit button is enabled.
SigninIsFormValid(form, errors) ==
  /\ errors.email = None /\ errors.password = None
  /\ Len(form.email) > 0 /\ Len(form.password) > 0

\* The user fills the form (handleChange revalidates the touched fields) and
\* submits it: Signin.handleSubmit up to its await.
SigninSubmit ==
  /\ AtRest
  /\ page = "/signin"
  /\ ~signin.isSubmitting /\ ~signin.showSuccess
  /\ \E form \in SigninForms :
       LET results == SigninValidate(form)
           typed == [f \in {"email", "password"} |->
                       IF signin.touched[f] THEN results[f].error ELSE signin.errors[f]]
           validated == [f \in {"email", "password"} |-> results[f].error]
           allTouched == [f \in {"email", "password"} |-> TRUE] IN
       /\ SigninIsFormValid(form, typed)
       /\ IF results.email.isValid /\ results.password.isValid
            THEN /\ signin' = [signin EXCEPT !.formData = form, !.errors = validated,
                                            !.touched = allTouched, !.apiError = None,
                                            !.isSubmitting = TRUE]
                 /\ calls' = [calls EXCEPT !["login"] =
                                Request(IdleCall, "login", Some(form))]
                 /\ sent' = [sent EXCEPT !["login"] = [NoneSent EXCEPT !["login"] = 1]]
            ELSE /\ signin' = [signin EXCEPT !.formData = form, !.errors = validated,
                                            !.touched = allTouched, !.apiError = None]
                 /\ sent' = [sent EXCEPT !["login"] = NoneSent]
                 /\ UNCHANGED calls
  /\ UNCHANGED <<sessionStore, localStore, page, signup, redirectTimer, pageVars,
                 alertMsg, srvVars, loadOwner>>
  /\ UNCHANGED <<filterVars, analyticsVars>>

\* Mutant of SigninLoginSettled: a rejected login clears the form and leaves
\* the submit button busy.
SigninLoginSettledClearsForm ==
  /\ alertMsg = ""
  /\ page = "/signin"
  /\ Responded("login", "login")
  /\ IF Response("login").ok
       THEN /\ sessionStore' = StoreAuthResponse(sessionStore, Response("login").data)
            /\ signin' = [signin EXCEPT !.showSuccess = TRUE]
            /\ redirectTimer' = TRUE
       ELSE /\ signin' = [FreshSignin EXCEPT !.apiError = Some("Invalid credentials"),
                                            !.isSubmitting = TRUE]
            /\ UNCHANGED <<sessionStore, redirectTimer>>
  /\ calls' = [calls EXCEPT !["login"] = IdleCall]
  /\ sent' = Settled(sent, "login", calls')
  /\ UNCHANGED <<localStore, page, signup, pageVars, alertMsg, srvVars, loadOwner>>
  /\ UNCHANGED <<filterVars, analyticsVars>>

\* login() and Signin.handleSubmit after the request settled.
SigninLoginSettled ==
  /\ alertMsg = ""
  /\ page = "/signin"
  /\ Responded("login", "login")
  /\ IF Response("login").ok
       THEN /\ sessionStore' = StoreAuthResponse(sessionStore, Response("login").data)
            /\ signin' = [signin EXCEPT !.showSuccess = TRUE]
            /\ redirectTimer' = TRUE
       ELSE /\ signin' = [signin EXCEPT !.apiError = Some("Invalid credentials"),
                                       !.isSubmitting = FALSE]
            /\ UNCHANGED <<sessionStore, redirectTimer>>
  /\ calls' = [calls EXCEPT !["login"] = IdleCall]
  /\ sent' = Settled(sent, "login", calls')
  /\ UNCHANGED <<localStore, page, signup, pageVars, alertMsg, srvVars, loadOwner>>
  /\ UNCHANGED <<filterVars, analyticsVars>>

\* --------------------------------------------------------- Signup page
SignupForm(name, email, password, confirmPassword, phone) ==
  [name |-> name, email |-> email, password |-> password,
   confirmPassword |-> confirmPassword, phone |-> phone]

GoodPassword == <<"a","b","c","d","e","f","g","1">>

\* What the user types into the sign-up form.
SignupForms ==
  { SignupForm(<<"A","l">>, <<"a","@","b",".","c">>, GoodPassword, GoodPassword, <<>>),
    SignupForm(<<"A">>,     <<"a","@","b",".","c">>, GoodPassword, GoodPassword, <<>>),
    SignupForm(<<"A","l">>, <<"a","b">>,             GoodPassword, GoodPassword, <<>>),
    SignupForm(<<"A","l">>, <<"a","@","b",".","c">>, <<"a","b","c","1">>, <<"a","b","c","1">>, <<>>),
    SignupForm(<<"A","l">>, <<"a","@","b",".","c">>, GoodPassword, <<"x">>, <<>>),
    SignupForm(<<"A","l">>, <<"a","@","b",".","c">>, GoodPassword, GoodPassword, <<"1","2">>) }

\* Mutant of SignupValidate: the confirmation is not compared with the password.
SignupValidateNoConfirm(form) ==
  [name |-> validateName(form.name),
   email |-> validateEmail(form.email),
   password |-> validatePassword(form.password),
   confirmPassword |-> Valid,
   phone |-> validatePhone(form.phone)]

\* Signup.validateField for each field of the form.
SignupValidate(form) ==
  [name |-> validateName(form.name),
   email |-> validateEmail(form.email),
   password |-> validatePassword(form.password),
   confirmPassword |-> validateConfirmPassword(form.password, form.confirmPassword),
   phone |-> validatePhone(form.phone)]

\* Signup.isFormValid: the submit button is enabled.
SignupIsFormValid(form, errors) ==
  /\ \A f \in SignupFields : errors[f] = None
  /\ \A f \in SignupFields \ {"phone"} : Len(form[f]) > 0

\* The user fills the form (handleChange revalidates the touched fields) and
\* submits it: Signup.handleSubmit up to its await.
SignupSubmit ==
  /\ AtRest
  /\ page = "/signup"
  /\ ~signup.isSubmitting /\ ~signup.showSuccess
  /\ \E form \in SignupForms :
       LET results == SignupValidate(form)
           typed == [f \in SignupFields |->
                       IF signup.touched[f] THEN results[f].error ELSE signup.errors[f]]
           validated == [f \in SignupFields |-> results[f].error]
           allTouched == [f \in SignupFields |-> TRUE] IN
       /\ SignupIsFormValid(form, typed)
       /\ IF \A f \in SignupFields : results[f].isValid
            THEN /\ signup' = [signup EXCEPT !.formData = form, !.errors = validated,
                                            !.touched = allTouched, !.apiError = None,
                                            !.isSubmitting = TRUE]
                 /\ calls' = [calls EXCEPT !["signup"] =
                                Request(IdleCall, "signup",
                                        Some([name |-> form.name, email |-> form.email,
                                              password |-> form.password,
                                              phone |-> form.phone]))]
                 /\ sent' = [sent EXCEPT !["signup"] = [NoneSent EXCEPT !["signup"] = 1]]
            ELSE /\ signup' = [signup EXCEPT !.formData = form, !.errors = validated,
                                            !.touched = allTouched, !.apiError = None]
                 /\ sent' = [sent EXCEPT !["signup"] = NoneSent]
                 /\ UNCHANGED calls
  /\ UNCHANGED <<sessionStore, localStore, page, signin, redirectTimer, pageVars,
                 alertMsg, srvVars, loadOwner>>
  /\ UNCHANGED <<filterVars, analyticsVars>>

\* signup() and Signup.handleSubmit after the request settled.
SignupSettled ==
  /\ alertMsg = ""
  /\ page = "/signup"
  /\ Responded("signup", "signup")
  /\ IF Response("signup").ok
       THEN /\ sessionStore' = StoreAuthResponse(sessionStore, Response("signup").data)
            /\ signup' = [signup EXCEPT !.showSuccess = TRUE]
            /\ redirectTimer' = TRUE
       ELSE /\ signup' = [signup EXCEPT !.apiError = Some("Email already registered"),
                                       !.isSubmitting = FALSE]
            /\ UNCHANGED <<sessionStore, redirectTimer>>
  /\ calls' = [calls EXCEPT !["signup"] = IdleCall]
  /\ sent' = Settled(sent, "signup", calls')
  /\ UNCHANGED <<localStore, page, signin, pageVars, alertMsg, srvVars, loadOwner>>
  /\ UNCHANGED <<filterVars, analyticsVars>>

\* POST /api/auth/login and POST /api/auth/signup accepted: { user, token? }.
SrvAuth ==
  \E c \in {"login", "signup"}, token \in {None, Some("token")} :
    /\ Pending(c, c)
    /\ calls' = [calls EXCEPT ![c].resp = Ok([user |-> Some("user"), token |-> token])]
    /\ UNCHANGED <<appVars, pageVars, alertMsg, srvVars, bookVars>>
    /\ UNCHANGED <<filterVars, analyticsVars>>

\* ------------------------------------------------------- specification
Init ==
  /\ sessionStore = [k \in StorageKeys |-> None]
  /\ localStore = [k \in StorageKeys |-> None]
  /\ page = "/"
  /\ signin = FreshSignin /\ signup = FreshSignup /\ redirectTimer = FALSE
  /\ budgetData = None /\ stats = None /\ recentExpenses = <<>> /\ loading = FALSE
  /\ showBudgetModal = FALSE /\ budgetAmount = <<>> /\ budgetMode = "set"
  /\ isUpdatingBudget = FALSE /\ showExpenseModal = FALSE /\ expenseForm = EmptyForm
  /\ alertMsg = ""
  /\ searchTerm = <<>> /\ filterCategory = "All" /\ filterDateRange = "Month"
  /\ download = None
  /\ AnalyticsInitialState
  /\ calls = [c \in Callers |-> IdleCall]
  /\ srvBudget = None /\ srvExpenses = <<>>
  /\ sent = [a \in UserActions |-> NoneSent]
  /\ loadOwner = "mount"

Next ==
  \/ Navigate \/ HandleLogout \/ RedirectTimerFires
  \/ SigninSubmit \/ SigninLoginSettled \/ SignupSubmit \/ SignupSettled
  \/ SrvAuth
  \/ SrvGetExpenseStats \/ SrvGetExpenses \/ SrvGetBudget \/ SrvDistributeBudget
  \/ SrvSetBudget \/ SrvAddExpense \/ RequestFails
  \/ LoadStatsDone \/ LoadRecentExpensesDone
  \/ LoadBudgetDataGotBudget \/ LoadBudgetDataGotStats \/ LoadBudgetDataGotDistribution
  \/ OpenBudgetModal \/ CloseBudgetModal \/ ChangeBudgetAmount
  \/ HandleSetBudget \/ HandleSetBudgetStored \/ HandleSetBudgetDistributed
  \/ HandleSetBudgetGotStats
  \/ OpenExpenseModal \/ CloseExpenseModal \/ ChangeExpenseForm
  \/ HandleAddExpense \/ HandleAddExpenseDone
  \/ DismissAlert

Spec == Init /\ [][Next]_vars

\* ------------------------------------- specification of the enrichment
\* The two handlers that enrich a distribution, started on a mounted Expenses
\* page with their responses in hand: loadBudgetData has the distribution (and
\* the stats it fetched before), handleSetBudget has the stats (and the
\* distribution it fetched before). Both see the same allocations and the same
\* by_category map, drawn from the values below.
EnrichAmounts == {-5, 0, 5, 100}
EnrichPercentages == {0, 10, 11, 20, 21}
EnrichSpent == {0, 4, 5, 6, 79, 80, 99, 100, 101}

EnrichAllocations ==
  { <<Alloc("Food", a, p)>> : a \in EnrichAmounts, p \in EnrichPercentages }
  \cup { <<Alloc("Food", a, p), Alloc("Bills", 5, q)>> :
           a \in EnrichAmounts, p \in EnrichPercentages, q \in EnrichPercentages }

EnrichStats ==
  { [by_category |-> m] : m \in UNION { [S -> EnrichSpent] : S \in SUBSET Categories } }

InitEnrich ==
  /\ sessionStore = [k \in StorageKeys |->
                       IF k = TOKEN_KEY THEN Some("token") ELSE Some("user")]
  /\ localStore = [k \in StorageKeys |-> None]
  /\ page = "/expenses"
  /\ signin = FreshSignin /\ signup = FreshSignup /\ redirectTimer = FALSE
  /\ budgetData = None /\ stats = None /\ recentExpenses = <<>> /\ loading = TRUE
  /\ showBudgetModal = TRUE /\ budgetAmount = <<1>> /\ budgetMode = "set"
  /\ isUpdatingBudget = TRUE /\ showExpenseModal = FALSE /\ expenseForm = EmptyForm
  /\ alertMsg = ""
  /\ searchTerm = <<>> /\ filterCategory = "All" /\ filterDateRange = "Month"
  /\ download = None
  /\ AnalyticsInitialState
  /\ \E allocations \in EnrichAllocations, currentStats \in EnrichStats :
       LET result == [budget_amount |-> 1, period |-> currentPeriod,
                      allocations |-> allocations] IN
       calls = [c \in Callers |->
                  IF c = "loadBudgetData"
                    THEN [pc |-> "distributeBudget", resp |-> Ok(result),
                          body |-> Some(1), stats |-> Some(currentStats), result |-> None]
                  ELSE IF c = "handleSetBudget"
                    THEN [pc |-> "getExpenseStats", resp |-> Ok(currentStats),
                          body |-> Some(1), stats |-> None, result |-> Some(result)]
                  ELSE IdleCall]
  /\ srvBudget = Some([amount |-> 1]) /\ srvExpenses = <<>>
  /\ sent = [a \in UserActions |->
               IF a = "handleSetBudget"
                 THEN [k \in Kinds |->
                         IF k \in {"setBudget", "distributeBudget", "getExpenseStats"}
                           THEN 1 ELSE 0]
                 ELSE NoneSent]
  /\ loadOwner = "mount"

NextEnrich == LoadBudgetDataGotDistribution \/ HandleSetBudgetGotStats

SpecEnrich == InitEnrich /\ [][NextEnrich]_vars

\* ------------------------------- specification of the password field
\* The password field of the sign-up page: the user types a password one
\* character at a time and leaves the field. The characters are typed class by
\* class (lower case, upper case, digit, special, blank): the validators do
\* not look at positions.
PasswordChars == <<"a", "A", "1", "!", " ">>

\* Signup.handleChange of the password field: one more character.
SignupChangePassword ==
  /\ page = "/signup" /\ alertMsg = ""
  /\ ~signup.isSubmitting /\ ~signup.showSuccess
  /\ Len(signup.formData.password) < MaxPasswordLen
  /\ \E j \in 1..Len(PasswordChars) :
       LET old == signup.formData.password
           value == Append(old, PasswordChars[j])
           withConfirm ==
             IF signup.touched.password /\ signup.touched.confirmPassword
               THEN [signup.errors EXCEPT !.confirmPassword =
                       validateConfirmPassword(value, signup.formData.confirmPassword).error]
               ELSE signup.errors IN
       /\ IF Len(old) = 0 THEN TRUE
          ELSE \E i \in 1..j : PasswordChars[i] = old[Len(old)]
       /\ signup' = [signup EXCEPT
                       !.formData.password = value,
                       !.apiError = None,
                       !.errors = IF signup.touched.password
                                    THEN [withConfirm EXCEPT !.password =
                                            validatePassword(value).error]
                                    ELSE signup.errors]
  /\ UNCHANGED <<sessionStore, localStore, page, signin, redirectTimer, pageVars,
                 alertMsg, calls, srvVars, bookVars>>
  /\ UNCHANGED <<filterVars, analyticsVars>>

\* Signup.handleBlur of the password field.
SignupBlurPassword ==
  /\ page = "/signup" /\ alertMsg = ""
  /\ ~signup.isSubmitting /\ ~signup.showSuccess
  /\ LET value == signup.formData.password
         withConfirm ==
           IF signup.touched.confirmPassword
             THEN [signup.errors EXCEPT !.confirmPassword =
                     validateConfirmPassword(value, signup.formData.confirmPassword).error]
             ELSE signup.errors IN
     signup' = [signup EXCEPT
                  !.touched.password = TRUE,
                  !.errors = [withConfirm EXCEPT !.password = validatePassword(value).error]]
  /\ UNCHANGED <<sessionStore, localStore, page, signin, redirectTimer, pageVars,
                 alertMsg, calls, srvVars, bookVars>>
  /\ UNCHANGED <<filterVars, analyticsVars>>

\* const passwordStrength = calculatePasswordStrength(formData.password)
passwordStrength == calculatePasswordStrength(signup.formData.password)

\* PasswordStrengthMeter: width of the bar in percent.
StrengthBarWidth == ((passwordStrength.score + 1) * 100) \div 4

InitPassword ==
  /\ sessionStore = [k \in StorageKeys |-> None]
  /\ localStore = [k \in StorageKeys |-> None]
  /\ page = "/signup"
  /\ signin = FreshSignin /\ signup = FreshSignup /\ redirectTimer = FALSE
  /\ budgetData = None /\ stats = None /\ recentExpenses = <<>> /\ loading = FALSE
  /\ showBudgetModal = FALSE /\ budgetAmount = <<>> /\ budgetMode = "set"
  /\ isUpdatingBudget = FALSE /\ showExpenseModal = FALSE /\ expenseForm = EmptyForm
  /\ alertMsg = ""
  /\ searchTerm = <<>> /\ filterCategory = "All" /\ filterDateRange = "Month"
  /\ download = None
  /\ AnalyticsInitialState
  /\ calls = [c \in Callers |-> IdleCall]
  /\ srvBudget = None /\ srvExpenses = <<>>
  /\ sent = [a \in UserActions |-> NoneSent]
  /\ loadOwner = "mount"

NextPassword == SignupChangePassword \/ SignupBlurPassword

SpecPassword == InitPassword /\ [][NextPassword]_vars

\* ------------------------- specification of the two password fields
\* The password and confirm-password fields of the sign-up page: the user
\* replaces the value of either field and leaves either field, in any order.
TypedValues == {<<>>, <<" ">>, <<"a">>, <<"a","b">>, <<"a","1">>, GoodPassword}

\* Signup.validateField for the two password fields: the errors it sets.
SignupValidateField(s, field, value) ==
  IF field = "password"
    THEN LET withConfirm ==
               IF s.touched.confirmPassword
                 THEN [s.errors EXCEPT !.confirmPassword =
                         validateConfirmPassword(value, s.formData.confirmPassword).error]
                 ELSE s.errors
         IN [withConfirm EXCEPT !.password = validatePassword(value).error]
    ELSE [s.errors EXCEPT !.confirmPassword =
            validateConfirmPassword(s.formData.password, value).error]

\* Signup.handleChange of either field: the value is replaced, and validated
\* when the field has been touched.
SignupHandleChange ==
  /\ page = "/signup" /\ alertMsg = ""
  /\ ~signup.isSubmitting /\ ~signup.showSuccess
  /\ \E name \in {"password", "confirmPassword"}, value \in TypedValues :
       /\ value # signup.formData[name]
       /\ signup' = [signup EXCEPT
                       !.formData[name] = value,
                       !.apiError = None,
                       !.errors = IF signup.touched[name]
                                    THEN SignupValidateField(signup, name, value)
                                    ELSE signup.errors]
  /\ UNCHANGED <<sessionStore, localStore, page, signin, redirectTimer, pageVars,
                 alertMsg, calls, srvVars, bookVars>>
  /\ UNCHANGED <<filterVars, analyticsVars>>

\* Signup.handleBlur of either field.
SignupHandleBlur ==
  /\ page = "/signup" /\ alertMsg = ""
  /\ ~signup.isSubmitting /\ ~signup.showSuccess
  /\ \E name \in {"password", "confirmPassword"} :
       signup' = [signup EXCEPT
                    !.touched[name] = TRUE,
                    !.errors = SignupValidateField(signup, name, signup.formData[name])]
  /\ UNCHANGED <<sessionStore, localStore, page, signin, redirectTimer, pageVars,
                 alertMsg, calls, srvVars, bookVars>>
  /\ UNCHANGED <<filterVars, analyticsVars>>

NextConfirm == SignupHandleChange \/ SignupHandleBlur

SpecConfirm == InitPassword /\ [][NextConfirm]_vars

\* ------------------------------------ specification of the expense list
\* An expense of the list: category, amount, an optional description (a text)
\* and a date, counted in days. new Date(exp.date) is the midnight that starts
\* the day; the clock reads noon of the day Today (times in half days), and
\* local time is UTC.
Today == 0
Now == 2 * Today + 1
expenseDate(exp) == 2 * exp.date

\* The characters of the category names.
CategoryText == [Food |-> <<"F","o","o","d">>, Bills |-> <<"B","i","l","l","s">>]

LowerOf ==
  [A |-> "a", B |-> "b", C |-> "c", D |-> "d", E |-> "e", F |-> "f", G |-> "g",
   H |-> "h", I |-> "i", J |-> "j", K |-> "k", L |-> "l", M |-> "m", N |-> "n",
   O |-> "o", P |-> "p", Q |-> "q", R |-> "r", S |-> "s", T |-> "t", U |-> "u",
   V |-> "v", W |-> "w", X |-> "x", Y |-> "y", Z |-> "z"]

toLowerCase(text) ==
  [i \in 1..Len(text) |-> IF text[i] \in DOMAIN LowerOf THEN LowerOf[text[i]] ELSE text[i]]

\* text.includes(term)
includes(text, term) ==
  \E i \in 0..(Len(text) - Len(term)) : SubSeq(text, i + 1, i + Len(term)) = term

\* The callback of the search filter.
MatchesSearch(exp, term) ==
  \/ /\ IsSome(exp.description)
     /\ includes(toLowerCase(Get(exp.description)), toLowerCase(term))
  \/ includes(toLowerCase(CategoryText[exp.category]), toLowerCase(term))

\* Mutant of SearchFilter: the category is not searched.
SearchFilterDescriptionOnly(list, term) ==
  IF Len(term) > 0
    THEN SelectSeq(list, LAMBDA exp :
           IsSome(exp.description)
             /\ includes(toLowerCase(Get(exp.description)), toLowerCase(term)))
    ELSE list

SearchFilter(list, term) ==
  IF Len(term) > 0 THEN SelectSeq(list, LAMBDA exp : MatchesSearch(exp, term)) ELSE list

CategoryFilter(list, category) ==
  IF category # "All" THEN SelectSeq(list, LAMBDA exp : exp.category = category) ELSE list

DateFilter(list, range) ==
  CASE range = "Today" -> SelectSeq(list, LAMBDA exp : expenseDate(exp) \div 2 = Now \div 2)
    [] range = "Week" -> SelectSeq(list, LAMBDA exp : expenseDate(exp) >= Now - 2 * 7)
    [] range = "Month" -> SelectSeq(list, LAMBDA exp : expenseDate(exp) >= Now - 2 * 30)
    [] OTHER -> list

getFilteredExpenses(list, term, category, range) ==
  DateFilter(CategoryFilter(SearchFilter(list, term), category), range)

\* const filteredExpenses = getFilteredExpenses()
filteredExpenses ==
  getFilteredExpenses(recentExpenses, searchTerm, filterCategory, filterDateRange)

\* array.join(separator) over texts.
RECURSIVE join(_, _)
join(texts, separator) ==
  IF Len(texts) = 0 THEN <<>>
  ELSE IF Len(texts) = 1 THEN texts[1]
  ELSE texts[1] \o <<separator>> \o join(Tail(texts), separator)

\* The cells are texts; a date, a category name, a number written out and a
\* header are texts of one piece.
csvHeaders == << <<"Date">>, <<"Category">>, <<"Amount">>, <<"Description">> >>

csvRow(exp) ==
  << <<ToString(exp.date)>>, <<exp.category>>, <<ToString(exp.amount)>>,
    IF IsSome(exp.description) /\ Len(Get(exp.description)) > 0
      THEN Get(exp.description) ELSE <<>> >>

csvContent(filtered) ==
  join(<<join(csvHeaders, ",")>>
         \o [i \in 1..Len(filtered) |-> join(csvRow(filtered[i]), ",")],
       "\n")

\* Mutant of ExportedExpenses: the export ignores the filters.
ExportedExpensesUnfiltered == recentExpenses

\* const filtered = getFilteredExpenses() of exportToCSV.
ExportedExpenses == filteredExpenses

\* The user acts on the list when no dialog and no download is pending.
ListAtRest == Quiet /\ download = None

SearchTerms == {<<>>, <<"f","O">>, <<"t","e">>}
DateRanges == {"All", "Today", "Week", "Month"}

\* onChange of the search input.
ChangeSearchTerm ==
  /\ ListAtRest
  /\ \E term \in SearchTerms : searchTerm' = term
  /\ UNCHANGED <<appVars, pageVars, alertMsg, calls, srvVars, bookVars,
                 filterCategory, filterDateRange, download, analyticsVars>>

\* onChange of the category select.
ChangeFilterCategory ==
  /\ ListAtRest
  /\ \E category \in {"All"} \cup Categories : filterCategory' = category
  /\ UNCHANGED <<appVars, pageVars, alertMsg, calls, srvVars, bookVars,
                 searchTerm, filterDateRange, download, analyticsVars>>

\* onChange of the date range select.
ChangeFilterDateRange ==
  /\ ListAtRest
  /\ \E range \in DateRanges : filterDateRange' = range
  /\ UNCHANGED <<appVars, pageVars, alertMsg, calls, srvVars, bookVars,
                 searchTerm, filterCategory, download, analyticsVars>>

\* exportToCSV: an alert when nothing is listed, else the file is handed to
\* the browser.
ExportToCSV ==
  /\ ListAtRest
  /\ IF Len(ExportedExpenses) = 0
       THEN /\ alertMsg' = "No expenses to export"
            /\ UNCHANGED download
       ELSE /\ download' = Some(csvContent(ExportedExpenses))
            /\ UNCHANGED alertMsg
  /\ UNCHANGED <<appVars, pageVars, calls, srvVars, bookVars,
                 searchTerm, filterCategory, filterDateRange, analyticsVars>>

\* The browser has saved the file.
BrowserSavesFile ==
  /\ download # None
  /\ download' = None
  /\ UNCHANGED <<appVars, pageVars, alertMsg, calls, srvVars, bookVars,
                 searchTerm, filterCategory, filterDateRange, analyticsVars>>

\* The expenses the list is drawn from: either category, with or without a
\* description, dated tomorrow, today, a week ago or forty days ago.
ListedExpenses ==
  { [category |-> c, amount |-> 1, description |-> d, date |-> t] :
      c \in Categories,
      d \in {None, Some(<<"T","e","a",",","x">>)},
      t \in {Today + 1, Today, Today - 7, Today - 40} }

ExpenseLists == UNION { [1..n -> ListedExpenses] : n \in 0..MaxListed }

InitFilters ==
  /\ sessionStore = [k \in StorageKeys |->
                       IF k = TOKEN_KEY THEN Some("token") ELSE Some("user")]
  /\ localStore = [k \in StorageKeys |-> None]
  /\ page = "/expenses"
  /\ signin = FreshSignin /\ signup = FreshSignup /\ redirectTimer = FALSE
  /\ budgetData = None /\ stats = Some([by_category |-> <<>>]) /\ loading = FALSE
  /\ recentExpenses \in ExpenseLists
  /\ showBudgetModal = FALSE /\ budgetAmount = <<>> /\ budgetMode = "set"
  /\ isUpdatingBudget = FALSE /\ showExpenseModal = FALSE /\ expenseForm = EmptyForm
  /\ alertMsg = ""
  /\ searchTerm = <<>> /\ filterCategory = "All" /\ filterDateRange = "Month"
  /\ download = None
  /\ AnalyticsInitialState
  /\ calls = [c \in Callers |-> IdleCall]
  /\ srvBudget = None /\ srvExpenses = <<>>
  /\ sent = [a \in UserActions |-> NoneSent]
  /\ loadOwner = "mount"

NextFilters ==
  \/ ChangeSearchTerm \/ ChangeFilterCategory \/ ChangeFilterDateRange
  \/ ExportToCSV \/ BrowserSavesFile \/ DismissAlert

SpecFilters == InitFilters /\ [][NextFilters]_vars

\* ---------------------------------- specification of the Analytics page
\* The Analytics page after its mount: the user selects forecast periods, and
\* the invocations of loadAnalyticsData and loadPredictions that each selection
\* starts finish in any order. The charts' data (expenses, stats) is not part
\* of the model.
ForecastOptions == {7, 14, 30, 60}

\* What a request of loadPredictions resolves to: null after a failure (the
\* .catch of the call), else the response body.
ForecastResponses(days) ==
  {None, Some([success |-> FALSE, days |-> days]), Some([success |-> TRUE, days |-> days])}
ListResponses(item) ==
  {None, Some([success |-> FALSE, list |-> <<>>]), Some([success |-> TRUE, list |-> <<item>>])}

\* if (data?.success) set(...)
Succeeded(response) == IsSome(response) /\ Get(response).success

RemoveAt(runs, i) == SubSeq(runs, 1, i - 1) \o SubSeq(runs, i + 1, Len(runs))

\* The effect on [forecastDays]: loadAnalyticsData() up to its await and
\* loadPredictions() up to its await.
ForecastDaysEffect(days) ==
  /\ analyticsLoading' = TRUE
  /\ analyticsRuns' = analyticsRuns + 1
  /\ predictionRuns' = Append(predictionRuns, days)

\* onChange of the forecast period select, which is rendered inside the
\* forecast section once the page is not loading.
ChangeForecastDays ==
  /\ page = "/analytics"
  /\ ~analyticsLoading
  /\ Succeeded(forecast)
  /\ Len(predictionRuns) < MaxPending
  /\ \E days \in ForecastOptions \ {forecastDays} :
       /\ forecastDays' = days
       /\ ForecastDaysEffect(days)
  /\ UNCHANGED <<appVars, pageVars, alertMsg, calls, srvVars, bookVars, filterVars,
                 forecast, categoryForecast, anomalies, insights>>

\* loadAnalyticsData after its requests settled, whether they failed or not.
LoadAnalyticsDataDone ==
  /\ page = "/analytics"
  /\ analyticsRuns > 0
  /\ analyticsRuns' = analyticsRuns - 1
  /\ analyticsLoading' = FALSE
  /\ UNCHANGED <<appVars, pageVars, alertMsg, calls, srvVars, bookVars, filterVars,
                 forecastDays, forecast, categoryForecast, anomalies, insights,
                 predictionRuns>>

\* loadPredictions after its four requests settled: any invocation in flight
\* may be the next to finish.
LoadPredictionsDone ==
  /\ page = "/analytics"
  /\ \E i \in DOMAIN predictionRuns :
       \E forecastData \in ForecastResponses(predictionRuns[i]),
          catForecastData \in ForecastResponses(predictionRuns[i]),
          anomalyData \in ListResponses("anomaly"),
          trendData \in ListResponses("insight") :
         /\ forecast' = IF Succeeded(forecastData) THEN forecastData ELSE forecast
         /\ categoryForecast' = IF Succeeded(catForecastData)
                                  THEN catForecastData ELSE categoryForecast
         /\ anomalies' = IF Succeeded(anomalyData)
                           THEN Get(anomalyData).list ELSE anomalies
         /\ insights' = IF Succeeded(trendData) THEN Get(trendData).list ELSE insights
         /\ predictionRuns' = RemoveAt(predictionRuns, i)
  /\ UNCHANGED <<appVars, pageVars, alertMsg, calls, srvVars, bookVars, filterVars,
                 forecastDays, analyticsLoading, analyticsRuns>>

\* The Analytics page has just mounted: its effect has run for the initial
\* forecastDays.
InitAnalytics ==
  /\ sessionStore = [k \in StorageKeys |->
                       IF k = TOKEN_KEY THEN Some("token") ELSE Some("user")]
  /\ localStore = [k \in StorageKeys |-> None]
  /\ page = "/analytics"
  /\ signin = FreshSignin /\ signup = FreshSignup /\ redirectTimer = FALSE
  /\ budgetData = None /\ stats = None /\ recentExpenses = <<>> /\ loading = FALSE
  /\ showBudgetModal = FALSE /\ budgetAmount = <<>> /\ budgetMode = "set"
  /\ isUpdatingBudget = FALSE /\ showExpenseModal = FALSE /\ expenseForm = EmptyForm
  /\ alertMsg = ""
  /\ searchTerm = <<>> /\ filterCategory = "All" /\ filterDateRange = "Month"
  /\ download = None
  /\ forecastDays = 30
  /\ forecast = None /\ categoryForecast = None
  /\ anomalies = <<>> /\ insights = <<>>
  /\ analyticsLoading = TRUE
  /\ analyticsRuns = 1 /\ predictionRuns = <<30>>
  /\ calls = [c \in Callers |-> IdleCall]
  /\ srvBudget = None /\ srvExpenses = <<>>
  /\ sent = [a \in UserActions |-> NoneSent]
  /\ loadOwner = "mount"

NextAnalytics == ChangeForecastDays \/ LoadAnalyticsDataDone \/ LoadPredictionsDone

SpecAnalytics == InitAnalytics /\ [][NextAnalytics]_vars

\* ----------------------------------------------------------------- claims
\* The allocations of the budget on display.
Displayed ==
  IF IsSome(budgetData)
    THEN {Get(budgetData).allocations[i] : i \in DOMAIN Get(budgetData).allocations}
    ELSE {}

\* C1: whenever a budget is displayed, every allocation has
\* remaining = max(0, amount - spent), hence remaining >= 0, also when
\* spent > amount.
C1_RemainingIsClampedDifference ==
  \A a \in Displayed :
    /\ IF a.amount - a.spent > 0
         THEN a.remaining = a.amount - a.spent
         ELSE a.remaining = 0
    /\ a.remaining >= 0

\* A budget is displayed in which a category is overspent and nothing remains.
C1_Witness ==
  \E a \in Displayed : a.spent > a.amount /\ a.remaining = 0

\* C2: every enriched allocation is 'high' when percentage > 20, 'medium'
\* when 10 < percentage <= 20 and 'low' when percentage <= 10, so that of two
\* allocations the one with the larger percentage never has the lower priority.
PriorityRank == [low |-> 1, medium |-> 2, high |-> 3]

C2_PriorityThresholds ==
  /\ \A a \in Displayed :
       /\ a.percentage > 20 => a.priority = "high"
       /\ (a.percentage > 10 /\ a.percentage <= 20) => a.priority = "medium"
       /\ a.percentage <= 10 => a.priority = "low"
  /\ \A a, b \in Displayed :
       a.percentage <= b.percentage
         => PriorityRank[a.priority] <= PriorityRank[b.priority]

\* Two allocations on display sit on the boundaries 10 and 20: low and medium.
C2_Witness ==
  \E a, b \in Displayed :
    /\ a.percentage = 10 /\ a.priority = "low"
    /\ b.percentage = 20 /\ b.priority = "medium"

\* C3: a displayed allocation card is in the danger state exactly when
\* spent / amount * 100 >= 100, in the warning state exactly when it is >= 80
\* and < 100, and normal otherwise (an amount of 0 gives Infinity, hence
\* danger, when something was spent and NaN, hence normal, when nothing was);
\* the three states exclude each other.
C3_AlertThresholds ==
  \A a \in Displayed :
    /\ a.amount > 0 =>
         /\ AlertState(a) = "danger" <=> 100 * a.spent >= 100 * a.amount
         /\ AlertState(a) = "warning" <=>
              (100 * a.spent >= 80 * a.amount /\ 100 * a.spent < 100 * a.amount)
    /\ a.amount < 0 =>
         /\ AlertState(a) = "danger" <=> 100 * a.spent <= 100 * a.amount
         /\ AlertState(a) = "warning" <=>
              (100 * a.spent <= 80 * a.amount /\ 100 * a.spent > 100 * a.amount)
    /\ a.amount = 0 =>
         /\ AlertState(a) = "danger" <=> a.spent > 0
         /\ AlertState(a) # "warning"
    /\ AlertState(a) \in {"danger", "warning", "normal"}
    /\ ~(isDanger(a) /\ isWarning(a))
    /\ AlertState(a) = "normal" <=> (~isDanger(a) /\ ~isWarning(a))

\* One card on display is exactly at 100% of its amount, in the danger state,
\* and another exactly at 80%, in the warning state.
C3_Witness ==
  \E a, b \in Displayed :
    /\ a.amount = 100 /\ a.spent = 100 /\ AlertState(a) = "danger"
    /\ b.amount = 5 /\ b.spent = 4 /\ AlertState(b) = "warning"

\* C4: loadBudgetData and handleSetBudget enrich alike: from the same
\* allocation list and the same by_category map each displays the allocations
\* the other would.
SameInputs ==
  /\ Responded("loadBudgetData", "distributeBudget")
  /\ Responded("handleSetBudget", "getExpenseStats")
  /\ Response("loadBudgetData").ok /\ Response("handleSetBudget").ok
  /\ Response("loadBudgetData").data.allocations
       = Get(calls["handleSetBudget"].result).allocations
  /\ Get(calls["loadBudgetData"].stats) = Response("handleSetBudget").data

C4_SameEnrichment ==
  [][ SameInputs =>
        /\ (calls'["loadBudgetData"].pc = "idle" =>
              Get(budgetData').allocations
                = SetEnrichAll(Get(calls["handleSetBudget"].result).allocations,
                               Response("handleSetBudget").data.by_category))
        /\ (calls'["handleSetBudget"].pc = "idle" =>
              Get(budgetData').allocations
                = LoadEnrichAll(Response("loadBudgetData").data.allocations,
                                Get(calls["loadBudgetData"].stats).by_category)) ]_vars

\* Both handlers have displayed their result for an overspent category.
C4_Witness ==
  /\ calls["loadBudgetData"].pc = "idle" /\ calls["handleSetBudget"].pc = "idle"
  /\ \E a \in Displayed : a.spent > a.amount /\ a.amount > 0

HandleSetBudgetFails ==
  /\ Responded("handleSetBudget", calls["handleSetBudget"].pc)
  /\ ~Response("handleSetBudget").ok
  /\ calls'["handleSetBudget"] # calls["handleSetBudget"]

C6_FailureOnlyAlerts ==
  [][ HandleSetBudgetFails =>
        /\ alertMsg' # ""
        /\ budgetData' = budgetData /\ stats' = stats
        /\ showBudgetModal' = showBudgetModal
        /\ budgetAmount' = budgetAmount /\ budgetMode' = budgetMode
        /\ isUpdatingBudget /\ ~isUpdatingBudget'
        /\ calls'["handleSetBudget"].pc = "idle" ]_vars

\* A failed 'add' left its alert, with the modal open on the entered amount.
C6_Witness ==
  /\ alertMsg = "Failed to set budget. Please try again."
  /\ showBudgetModal /\ budgetAmount = <<1>> /\ budgetMode = "add"
  /\ IsSome(budgetData) /\ ~isUpdatingBudget
  /\ calls["handleSetBudget"].pc = "idle"

\* C7 as stated: a user action causes at most one request of each kind.
C7_AtMostOneRequestOfEachKind ==
  \A a \in UserActions, k \in Kinds : sent[a][k] <= 1

\* C7: nothing is retried: the step that handles a failed request sends no
\* request, and a user action causes at most one request of each kind, except
\* that the reload after a successful handleAddExpense asks for the expense
\* stats twice (loadStats and loadBudgetData).
C7_NoRetry ==
  [][ /\ \A a \in UserActions, k \in Kinds :
           sent'[a][k] <= IF a = "handleAddExpense" /\ k = "getExpenseStats"
                            THEN 2 ELSE 1
      /\ \A c \in Callers :
           (Responded(c, calls[c].pc) /\ ~Response(c).ok /\ calls'[c] # calls[c]) =>
             /\ calls'[c].pc = "idle"
             /\ \A a \in UserActions, k \in Kinds : sent'[a][k] <= sent[a][k] ]_vars

\* The reload after an added expense has asked for the stats twice, and the
\* second of these requests has failed.
C7_Witness ==
  /\ sent["handleAddExpense"]["getExpenseStats"] = 2
  /\ Responded("loadBudgetData", "getExpenseStats")
  /\ ~Response("loadBudgetData").ok

\* C8: a protected page is rendered only while a token is stored, and without
\* a token each protected location leads to /signin.
C8_ProtectedNeedsToken ==
  /\ page \in ProtectedPaths => sessionStore[TOKEN_KEY] # None
  /\ sessionStore[TOKEN_KEY] = None =>
       \A path \in ProtectedPaths : Routes(sessionStore, path) = "/signin"

\* A sign-in answered without a token was sent on to /dashboard by its timer
\* and ended on a fresh /signin page.
C8_Witness ==
  /\ page = "/signin" /\ signin = FreshSignin /\ ~redirectTimer
  /\ sessionStore[TOKEN_KEY] = None /\ sessionStore[USER_KEY] # None

\* C9: the step that removes the token removes the user data too and ends on
\* /signin; from then on no protected page is rendered without a token, and a
\* token is stored again only by a successful login or signup.
C9_LogoutClearsSession ==
  [][ /\ (sessionStore[TOKEN_KEY] # None /\ sessionStore'[TOKEN_KEY] = None) =>
           /\ sessionStore'[USER_KEY] = None
           /\ page' = "/signin"
      /\ sessionStore'[TOKEN_KEY] = None => page' \notin ProtectedPaths
      /\ (sessionStore[TOKEN_KEY] = None /\ sessionStore'[TOKEN_KEY] # None) =>
           \E c \in {"login", "signup"} : Responded(c, c) /\ Response(c).ok ]_vars

\* Signed out on /signin after a budget was set while signed in.
C9_Witness ==
  /\ page = "/signin"
  /\ sessionStore[TOKEN_KEY] = None /\ sessionStore[USER_KEY] = None
  /\ srvBudget # None

\* C10 as stated: a login or signup answered with a token leaves that token in
\* localStorage under expense_token.
C10_TokenInLocalStorage ==
  [][ \A c \in {"login", "signup"} :
        (/\ Responded(c, c) /\ Response(c).ok
         /\ IsSome(Response(c).data.token)
         /\ calls'[c].pc = "idle") =>
          localStore'[TOKEN_KEY] = Response(c).data.token ]_vars

\* C11 as stated: a login or signup that resolves successfully, with or
\* without a token in the response, shows the success state, and the redirect
\* that follows ends on /dashboard.
C11_SuccessReachesDashboard ==
  [][ /\ \A c \in {"login", "signup"} :
           (Responded(c, c) /\ Response(c).ok /\ calls'[c].pc = "idle") =>
             /\ redirectTimer'
             /\ (IF c = "login" THEN signin' ELSE signup').showSuccess
      /\ (redirectTimer /\ ~redirectTimer') => page' = "/dashboard" ]_vars

\* C12: the step that handles a rejected login or signup sets the error
\* banner and isSubmitting = false, and leaves the page, the form values, the
\* stored token and user data as they were; the submit button is enabled again.
C12_RejectionKeepsForm ==
  [][ /\ (Responded("login", "login") /\ ~Response("login").ok
          /\ calls'["login"].pc = "idle") =>
           /\ signin'.apiError # None /\ ~signin'.isSubmitting /\ ~signin'.showSuccess
           /\ signin'.formData = signin.formData
           /\ signin'.formData = Get(calls["login"].body)
           /\ SigninIsFormValid(signin'.formData, signin'.errors)
           /\ page' = page /\ ~redirectTimer'
           /\ sessionStore' = sessionStore /\ localStore' = localStore
      /\ (Responded("signup", "signup") /\ ~Response("signup").ok
          /\ calls'["signup"].pc = "idle") =>
           /\ signup'.apiError # None /\ ~signup'.isSubmitting /\ ~signup'.showSuccess
           /\ signup'.formData = signup.formData
           /\ signup'.formData.email = Get(calls["signup"].body).email
           /\ SignupIsFormValid(signup'.formData, signup'.errors)
           /\ page' = page /\ ~redirectTimer'
           /\ sessionStore' = sessionStore /\ localStore' = localStore ]_vars

\* A rejected login left its banner on the sign-in page, the form still filled
\* in and nothing stored.
C12_Witness ==
  /\ page = "/signin" /\ signin.apiError # None /\ ~signin.isSubmitting
  /\ signin.formData.email = <<"a","@","b",".","c">>
  /\ sessionStore[TOKEN_KEY] = None /\ calls["login"].pc = "idle"

\* C13: submitting the sign-up form sends the signup request exactly when the
\* five validators accept the current values; otherwise nothing is sent, every
\* field is marked touched and each failing field has its error recorded.
SignupAllPass(form) ==
  /\ validateName(form.name).isValid
  /\ validateEmail(form.email).isValid
  /\ validatePassword(form.password).isValid
  /\ validateConfirmPassword(form.password, form.confirmPassword).isValid
  /\ validatePhone(form.phone).isValid

SignupSubmits ==
  /\ page = "/signup" /\ page' = "/signup"
  /\ calls["signup"].pc = "idle"
  /\ signup' # signup /\ signup' # FreshSignup

C13_SignupSentOnlyWhenValid ==
  [][ SignupSubmits =>
        LET form == signup'.formData IN
        /\ calls'["signup"].pc = "signup" <=> SignupAllPass(form)
        /\ \A f \in SignupFields : signup'.touched[f]
        /\ ~SignupAllPass(form) =>
             /\ calls' = calls
             /\ sent'["signup"] = NoneSent
             /\ ~signup'.isSubmitting
             /\ signup'.errors.name = validateName(form.name).error
             /\ signup'.errors.email = validateEmail(form.email).error
             /\ signup'.errors.password = validatePassword(form.password).error
             /\ signup'.errors.confirmPassword
                  = validateConfirmPassword(form.password, form.confirmPassword).error
             /\ signup'.errors.phone = validatePhone(form.phone).error
             /\ \E f \in SignupFields : signup'.errors[f] # None ]_vars

\* A submitted form whose confirmation differs shows that error and sent nothing.
C13_Witness ==
  /\ page = "/signup" /\ calls["signup"].pc = "idle" /\ ~signup.isSubmitting
  /\ signup.errors.confirmPassword = Some("Passwords do not match")
  /\ \A f \in SignupFields : signup.touched[f]
  /\ sent["signup"] = NoneSent

\* The reload that follows an added expense has just finished: the last of
\* its three loaders returns.
ReloadCompletes ==
  /\ loadOwner = "handleAddExpense" /\ page' = page
  /\ \E c \in Loaders : calls[c].pc # "idle"
  /\ \A c \in Loaders : calls'[c].pc = "idle"

SpentIsCurrent(data) ==
  IsSome(data) =>
    \A i \in DOMAIN Get(data).allocations :
      LET a == Get(data).allocations[i] IN
      /\ a.spent = SumOf(srvExpenses, a.category)
      /\ AlertState(a) = AlertState([amount |-> a.amount,
                                     spent |-> SumOf(srvExpenses, a.category)])

C20_ValidationFailuresSendNothing ==
  [][ /\ (calls["handleSetBudget"].pc = "idle" /\ calls'["handleSetBudget"].pc # "idle") =>
           Len(budgetAmount) = 1 /\ budgetAmount[1] > 0
      /\ (calls["handleAddExpense"].pc = "idle" /\ calls'["handleAddExpense"].pc # "idle") =>
           /\ expenseForm.category # ""
           /\ Len(expenseForm.amount) = 1 /\ expenseForm.amount[1] > 0
      /\ (alertMsg = "" /\ alertMsg' = "Please enter a valid budget amount") =>
           /\ Len(budgetAmount) = 0 \/ budgetAmount[1] <= 0
           /\ calls' = calls /\ pageVars' = pageVars /\ srvVars' = srvVars
           /\ appVars' = appVars /\ filterVars' = filterVars
      /\ (alertMsg = "" /\ alertMsg' = "Please fill in all required fields") =>
           /\ \/ expenseForm.category = ""
              \/ Len(expenseForm.amount) = 0
              \/ expenseForm.amount[1] <= 0
           /\ calls' = calls /\ pageVars' = pageVars /\ srvVars' = srvVars
           /\ appVars' = appVars /\ filterVars' = filterVars ]_vars

\* The alert of a rejected expense form with no category is on screen, the
\* form and the modal as they were.
C20_Witness ==
  /\ alertMsg = "Please fill in all required fields"
  /\ showExpenseModal /\ expenseForm = [category |-> "", amount |-> <<1>>]
  /\ Settles(Callers)

\* The password in the sign-up form.
Typed == signup.formData.password
TypedNonBlank == \E i \in 1..Len(Typed) : Typed[i] # " "
TypedHasLetter ==
  \E i \in 1..Len(Typed) : Typed[i] \in {"a", "A"}
TypedHasDigit == \E i \in 1..Len(Typed) : Typed[i] = "1"

\* C15: validatePassword accepts exactly the non-blank passwords of at least 8
\* characters with a letter and a digit, and otherwise reports the first
\* failing rule in the order required, minimum length, letter, number.
C15_ValidatePasswordRules ==
  signup.touched.password =>
    LET error == signup.errors.password IN
    /\ error = None <=>
         (TypedNonBlank /\ Len(Typed) >= 8 /\ TypedHasLetter /\ TypedHasDigit)
    /\ ~TypedNonBlank => error = Some("Password is required")
    /\ (TypedNonBlank /\ Len(Typed) < 8) =>
         error = Some("Password must be at least 8 characters")
    /\ (TypedNonBlank /\ Len(Typed) >= 8 /\ ~TypedHasLetter) =>
         error = Some("Password must contain at least one letter")
    /\ (TypedNonBlank /\ Len(Typed) >= 8 /\ TypedHasLetter /\ ~TypedHasDigit) =>
         error = Some("Password must contain at least one number")

\* A short password without a letter is reported as too short, not as
\* lacking a letter.
C15_Witness ==
  /\ signup.touched.password /\ Typed = <<"1", "1", "!">>
  /\ signup.errors.password = Some("Password must be at least 8 characters")

\* C16 as stated: the strength score is within 0..3 for every password, so the
\* meter's bar is never wider than 100%.
C16_ScoreWithinRange ==
  /\ passwordStrength.score \in 0..3
  /\ StrengthBarWidth <= 100

\* C17: the label is 'weak' exactly for a score <= 1, 'medium' exactly for 2
\* and 'strong' exactly for >= 3, the score being one point each for length
\* >= 8, length >= 12, three character classes and all four; the empty
\* password is weak, and typing one more character never lowers the label.
TypedClasses ==
  Cardinality({k \in 1..4 : \E i \in 1..Len(Typed) : Typed[i] = PasswordChars[k]})

TypedPoints ==
  (IF Len(Typed) >= 8 THEN 1 ELSE 0) + (IF Len(Typed) >= 12 THEN 1 ELSE 0)
  + (IF TypedClasses >= 3 THEN 1 ELSE 0) + (IF TypedClasses >= 4 THEN 1 ELSE 0)

LabelRank == [weak |-> 1, medium |-> 2, strong |-> 3]

LabelMatchesScore ==
  /\ passwordStrength.score = TypedPoints
  /\ passwordStrength.label = "weak" <=> TypedPoints <= 1
  /\ passwordStrength.label = "medium" <=> TypedPoints = 2
  /\ passwordStrength.label = "strong" <=> TypedPoints >= 3
  /\ Len(Typed) = 0 => passwordStrength.label = "weak"

SameLetter(a, b) ==
  \/ a = b
  \/ a \in DOMAIN LowerOf /\ LowerOf[a] = b
  \/ b \in DOMAIN LowerOf /\ LowerOf[b] = a

Contains(text, term) ==
  \E offset \in 0..(Len(text) - Len(term)) :
    \A j \in 1..Len(term) : SameLetter(text[offset + j], term[j])

\* The expense satisfies every active filter. A range starts at noon seven or
\* thirty days ago and has no end; Today is the calendar day.
SatisfiesSearch(exp) ==
  \/ searchTerm = <<>>
  \/ IsSome(exp.description) /\ Contains(Get(exp.description), searchTerm)
  \/ Contains(CategoryText[exp.category], searchTerm)

SatisfiesCategory(exp) == filterCategory = "All" \/ exp.category = filterCategory

SatisfiesDateRange(exp) ==
  \/ filterDateRange = "All"
  \/ filterDateRange = "Today" /\ exp.date = Today
  \/ filterDateRange = "Week" /\ exp.date >= Today - 6
  \/ filterDateRange = "Month" /\ exp.date >= Today - 29

SatisfiesAll(exp) ==
  SatisfiesSearch(exp) /\ SatisfiesCategory(exp) /\ SatisfiesDateRange(exp)

RECURSIVE Kept(_)
Kept(list) ==
  IF list = <<>> THEN <<>>
  ELSE (IF SatisfiesAll(Head(list)) THEN <<Head(list)>> ELSE <<>>) \o Kept(Tail(list))

RECURSIVE Lines(_)
Lines(text) ==
  IF \E i \in 1..Len(text) : text[i] = "\n"
    THEN LET i == CHOOSE k \in 1..Len(text) :
                    text[k] = "\n" /\ \A j \in 1..(k - 1) : text[j] # "\n"
         IN <<SubSeq(text, 1, i - 1)>> \o Lines(SubSeq(text, i + 1, Len(text)))
    ELSE <<text>>

HeaderLine == <<"Date", ",", "Category", ",", "Amount", ",", "Description">>

RowLine(exp) ==
  <<ToString(exp.date), ",", exp.category, ",", ToString(exp.amount), ",">>
    \o (IF IsSome(exp.description) THEN Get(exp.description) ELSE <<>>)

ExportWritesFile == download = None /\ download' # None
ExportAlerts == alertMsg = "" /\ alertMsg' = "No expenses to export"

\* C19: a file handed to the browser by Export CSV holds the header line and
\* then one line for each expense of the currently filtered list, in the order
\* of that list, and is only written when that list is not empty; when the
\* filtered list is empty the export writes no file and only raises the alert,
\* and the filters and the list stay as they were in both cases.
C19_ExportWritesFilteredList ==
  [][/\ ExportWritesFile =>
          /\ Len(filteredExpenses) > 0
          /\ Lines(Get(download')) =
               <<HeaderLine>> \o [i \in 1..Len(filteredExpenses) |->
                                    RowLine(filteredExpenses[i])]
          /\ alertMsg' = alertMsg
     /\ ExportAlerts => filteredExpenses = <<>> /\ download' = None
     /\ ExportWritesFile \/ ExportAlerts =>
          /\ UNCHANGED <<recentExpenses, searchTerm, filterCategory, filterDateRange>>
          /\ sent' = sent
     /\ filteredExpenses = <<>> => download' = None]_vars

\* A file of three lines has been written while two of the loaded expenses are
\* filtered in and a filter hides something.
C19_Witness ==
  /\ download # None
  /\ Len(Lines(Get(download))) = 3
  /\ Len(filteredExpenses) = 2
  /\ filterCategory = "Bills"
  /\ filteredExpenses[1].description # None

\* C21: whenever the confirm-password field of the sign-up form has been
\* touched, it shows no error exactly when its value is not empty and equals
\* the value of the password field.
C21_ConfirmErrorFollowsValues ==
  signup.touched.confirmPassword =>
    (signup.errors.confirmPassword = None
       <=> /\ Len(signup.formData.confirmPassword) > 0
           /\ signup.formData.confirmPassword = signup.formData.password)

\* loadData has just finished: the last of its three loaders returns.
LoadDataCompletes ==
  /\ page = "/expenses" /\ page' = page
  /\ \E c \in Loaders : calls[c].pc # "idle"
  /\ \A c \in Loaders : calls'[c].pc = "idle"

\* C22: when loadData (the initial load or the reload after an added expense)
\* has completed, the spent value of every displayed allocation is the entry
\* of its category in the by_category map of the displayed stats, or 0 without
\* such an entry, whatever the order of the responses and whichever fails.
C22_SpentMatchesDisplayedStats ==
  [][ LoadDataCompletes =>
        (IsSome(budgetData') =>
           /\ IsSome(stats')
           /\ \A i \in DOMAIN Get(budgetData').allocations :
                LET a == Get(budgetData').allocations[i] IN
                a.spent = SpentOf(Get(stats').by_category, a.category)) ]_vars

\* handleSetBudget has just finished, on whichever path.
HandleSetBudgetFinishes ==
  /\ page = "/expenses" /\ page' = page
  /\ calls["handleSetBudget"].pc # "idle"
  /\ calls'["handleSetBudget"].pc = "idle"

\* C23: when handleSetBudget has finished, after a success or after a failure
\* of any of its three requests, the budget amount the page displays is the
\* amount stored on the server by the last setBudget.
C23_DisplayedBudgetIsStored ==
  [][ HandleSetBudgetFinishes =>
        (IsSome(srvBudget') =>
           /\ IsSome(budgetData')
           /\ Get(budgetData').budget_amount = Get(srvBudget').amount) ]_vars

\* C24: once every loadPredictions invocation in flight has finished, the
\* forecast displayed on the Analytics page is the one requested for the
\* selected forecastDays, whatever the order of the responses and whichever
\* request failed.
C24_ForecastIsForSelectedDays ==
  (page = "/analytics" /\ predictionRuns = <<>> /\ IsSome(forecast)) =>
    Get(forecast).days = forecastDays

====
